---- MODULE Spec2Model ----
(***************************************************************************)
(* The import pipeline of the diet/training backend: the upload handler    *)
(* (routers/files.py), the Excel and PDF parsers, the data validator and   *)
(* the plan converter.                                                     *)
(*                                                                         *)
(* Text is a sequence of characters.  An ASCII character is the one-letter *)
(* string itself, any other character is named by its code point:          *)
(*   u65e5 u671f 日期   u98df u7269 食物   u70ed u91cf 热量   u5361 卡       *)
(*   u65e9 u9910 早餐   u8dd1 u6b65 跑步   u5206 u949f 分钟   uff1a ：       *)
(*   u5e74 年  u6708 月  u65e5 日  u5c0f u65f6 小时  u71d5 u9ea6 燕麦         *)
(* Python values are records tagged with their type in field t.  A float   *)
(* is the decimal m * 10^-e with no trailing zero in m (e = 0 or m % 10 #  *)
(* 0), so equal numbers have equal records.  A dict is a function whose    *)
(* DOMAIN is its key set.                                                  *)
(***************************************************************************)
EXTENDS Integers, Sequences, FiniteSets, TLC

VARIABLES
    pc,                 \* position of the running handler / call
    upload,             \* the uploaded file (UploadFile and its content)
    temp_file_path,     \* upload_file: local temp_file_path (None or the path)
    tmp_on_disk,        \* whether the NamedTemporaryFile exists on disk
    file_info,          \* upload_file: file_info['file_type'] after sniffing
    parsed_data,        \* list of row dicts produced by a parser
    dtype,              \* data_type handed to validate_parsed_data
    validation_result,  \* ValidationResult (errors, warnings) or None
    plan_items,         \* {meals, exercises} or None
    db,                 \* committed Plan rows
    response,           \* what the handler returned or raised
    stages,             \* history: pipeline stages entered, in order
    text,               \* page text given to PDFParser._parse_text
    raw,                \* raw cell value given to the normalizer / date check
    normalized,         \* result of the parsers' date normalizer for raw
    calls,              \* history: number of add_error / add_warning calls
    self_worksheet,     \* ExcelParser.worksheet: the rows of the active sheet
    self_column_mapping,\* ExcelParser.column_mapping after _identify_columns
    file_path,          \* the file given to FileValidator.validate_file
    sniff_result,       \* what validate_file returned for file_path
    cell_field,         \* the field whose cell the normalizer is given
    parser,             \* which parser's normalizer runs: "excel" or "pdf"
    self_workbook,      \* ExcelParser.workbook: None or the handle it holds
    open_workbooks,     \* handles of the workbooks opened and not yet closed
    files,              \* the files an ExcelParser instance is still to parse
    outcome,            \* history: what each parse_file call returned or raised
    locals,             \* _parse_text: data, current_item and current_date
    line_no             \* _parse_text: number of lines the loop has taken

vars == <<pc, upload, temp_file_path, tmp_on_disk, file_info, parsed_data,
          dtype, validation_result, plan_items, db, response, stages,
          text, raw, normalized, calls, self_worksheet, self_column_mapping,
          file_path, sniff_result, cell_field, parser, self_workbook,
          open_workbooks, files, outcome, locals, line_no>>

\* the state of an ExcelParser instance's parse_file calls
instanceVars == <<self_workbook, open_workbooks, files, outcome>>

\* the state of a PDFParser._parse_text call
textVars == <<locals, line_no>>

----------------------------------------------------------------------------
(* Python values *)

None == [t |-> "None"]
Str(s) == [t |-> "str", s |-> s]
PyInt(n) == [t |-> "int", n |-> n]
Float(m, e) == [t |-> "float", m |-> m, e |-> e]
DateObj(y, m, d) == [t |-> "date", y |-> y, m |-> m, d |-> d]

\* bool(v): None, "", 0 and 0.0 are falsy.
Truthy(v) ==
    CASE v.t = "None" -> FALSE
      [] v.t = "str" -> v.s # <<>>
      [] v.t = "int" -> v.n # 0
      [] v.t = "float" -> v.m # 0
      [] OTHER -> TRUE

\* dict.get(key, default)
Get(d, k, default) == IF k \in DOMAIN d THEN d[k] ELSE default

\* d1.update(d2) / {**d1, **d2}
Update(d1, d2) ==
    [k \in (DOMAIN d1) \cup (DOMAIN d2) |-> IF k \in DOMAIN d2 THEN d2[k] ELSE d1[k]]

EmptyDict == [k \in {} |-> None]

\* min(S) of a non-empty set of integers
Min(S) == CHOOSE i \in S : \A j \in S : i <= j

----------------------------------------------------------------------------
(* Characters and strings *)

Digits == <<"0", "1", "2", "3", "4", "5", "6", "7", "8", "9">>
IsDigit(c) == \E i \in 1..10 : Digits[i] = c
DigitVal(c) == (CHOOSE i \in 1..10 : Digits[i] = c) - 1
DigitChar(n) == Digits[n + 1]
IsSpace(c) == c = " "

Upper == <<"A","B","C","D","E","F","G","H","I","J","K","L","M",
           "N","O","P","Q","R","S","T","U","V","W","X","Y","Z">>
LowerLetters == <<"a","b","c","d","e","f","g","h","i","j","k","l","m",
                  "n","o","p","q","r","s","t","u","v","w","x","y","z">>
LowerChar(c) ==
    IF \E i \in 1..26 : Upper[i] = c
    THEN LowerLetters[CHOOSE i \in 1..26 : Upper[i] = c]
    ELSE c
\* str.lower()
Lower(s) == [i \in 1..Len(s) |-> LowerChar(s[i])]

StartsWithAt(s, i, p) ==
    i + Len(p) - 1 <= Len(s) /\ SubSeq(s, i, i + Len(p) - 1) = p
\* p in s
Contains(s, p) == \E i \in 1..(Len(s) - Len(p) + 1) : StartsWithAt(s, i, p)

RECURSIVE LStrip(_)
LStrip(s) == IF s # <<>> /\ IsSpace(Head(s)) THEN LStrip(Tail(s)) ELSE s
RECURSIVE RStrip(_)
RStrip(s) ==
    IF s # <<>> /\ IsSpace(s[Len(s)]) THEN RStrip(SubSeq(s, 1, Len(s) - 1)) ELSE s
\* str.strip()
Strip(s) == RStrip(LStrip(s))

RECURSIVE DigitsToNat(_)
DigitsToNat(ds) ==
    IF ds = <<>> THEN 0
    ELSE DigitsToNat(SubSeq(ds, 1, Len(ds) - 1)) * 10 + DigitVal(ds[Len(ds)])
RECURSIVE NatToDigits(_)
NatToDigits(n) ==
    IF n < 10 THEN <<DigitChar(n)>>
    ELSE NatToDigits(n \div 10) \o <<DigitChar(n % 10)>>
ZeroPad(n, w) ==
    LET ds == NatToDigits(n)
    IN  [i \in 1..(IF Len(ds) < w THEN w - Len(ds) ELSE 0) |-> "0"] \o ds

RECURSIVE Pow10(_)
Pow10(e) == IF e = 0 THEN 1 ELSE 10 * Pow10(e - 1)

----------------------------------------------------------------------------
(* Numbers *)

RECURSIVE NormFloat(_, _)
NormFloat(m, e) ==
    IF e > 0 /\ m % 10 = 0 THEN NormFloat(m \div 10, e - 1) ELSE Float(m, e)

ValueError == [t |-> "ValueError"]
TypeError == [t |-> "TypeError"]
IsError(v) == v.t \in {"ValueError", "TypeError"}

\* float(s) for a str: surrounding blanks, an optional sign, digits with at
\* most one point and at least one digit.  (Exponent, inf/nan and underscore
\* forms need letters or "_" between digits; such strings are rejected here,
\* which is what float() does for every string of the models' alphabets.)
FloatOfStr(s) ==
    LET t0 == Strip(s)
        signed == t0 # <<>> /\ t0[1] \in {"-", "+"}
        neg == t0 # <<>> /\ t0[1] = "-"
        body == IF signed THEN Tail(t0) ELSE t0
        dots == {i \in 1..Len(body) : body[i] = "."}
        ok == /\ \A i \in 1..Len(body) : IsDigit(body[i]) \/ body[i] = "."
              /\ Cardinality(dots) <= 1
              /\ Len(body) - Cardinality(dots) >= 1
        dot == IF dots = {} THEN Len(body) + 1 ELSE CHOOSE i \in dots : TRUE
        ip == SubSeq(body, 1, dot - 1)
        fp == SubSeq(body, dot + 1, Len(body))
        mag == DigitsToNat(ip \o fp)
    IN  IF ok THEN NormFloat(IF neg THEN 0 - mag ELSE mag, Len(fp)) ELSE ValueError

\* float(v)
PyFloat(v) ==
    CASE v.t = "int" -> Float(v.n, 0)
      [] v.t = "float" -> v
      [] v.t = "str" -> FloatOfStr(v.s)
      [] OTHER -> TypeError

\* a < b for floats
FloatLess(a, b) == a.m * Pow10(b.e) < b.m * Pow10(a.e)

\* str(v)
PyStr(v) ==
    CASE v.t = "str" -> v.s
      [] v.t = "int" ->
            IF v.n < 0 THEN <<"-">> \o NatToDigits(0 - v.n) ELSE NatToDigits(v.n)
      [] v.t = "float" ->
            LET a == IF v.m < 0 THEN 0 - v.m ELSE v.m
                ip == NatToDigits(a \div Pow10(v.e))
                fp == IF v.e = 0 THEN <<"0">> ELSE ZeroPad(a % Pow10(v.e), v.e)
            IN  (IF v.m < 0 THEN <<"-">> ELSE <<>>) \o ip \o <<".">> \o fp
      [] v.t = "date" ->
            ZeroPad(v.y, 4) \o <<"-">> \o ZeroPad(v.m, 2) \o <<"-">> \o ZeroPad(v.d, 2)
      [] OTHER -> <<"N", "o", "n", "e">>

----------------------------------------------------------------------------
(* Calendar dates *)

IsLeap(y) == (y % 4 = 0 /\ y % 100 # 0) \/ y % 400 = 0
DaysInMonth(y, m) ==
    CASE m \in {1, 3, 5, 7, 8, 10, 12} -> 31
      [] m \in {4, 6, 9, 11} -> 30
      [] OTHER -> IF IsLeap(y) THEN 29 ELSE 28
\* datetime.date(y, m, d) does not raise ValueError
ValidYMD(y, m, d) ==
    /\ 1 <= y /\ y <= 9999
    /\ 1 <= m /\ m <= 12
    /\ 1 <= d /\ d <= DaysInMonth(y, m)
\* date.strftime('%Y-%m-%d')
Strftime(y, m, d) ==
    ZeroPad(y, 4) \o <<"-">> \o ZeroPad(m, 2) \o <<"-">> \o ZeroPad(d, 2)

----------------------------------------------------------------------------
(* Regular expressions of the shape used by the date patterns: a sequence  *)
(* of elements, each a greedy run of lo..hi digits (a capture group) or    *)
(* one character of a set.                                                 *)

D(lo, hi) == [k |-> "d", lo |-> lo, hi |-> hi]
C(set) == [k |-> "c", set |-> set]
NoMatch == [ok |-> FALSE, g |-> <<>>]

AllDigits(s, i, n) == i + n - 1 <= Len(s) /\ \A j \in i..(i + n - 1) : IsDigit(s[j])

\* Match of pat at position i: the capture groups of the first success of the
\* backtracking matcher (longest digit runs first).
RECURSIVE MatchAt(_, _, _)
RECURSIVE TryRun(_, _, _, _)
MatchAt(s, i, pat) ==
    IF pat = <<>> THEN [ok |-> TRUE, g |-> <<>>]
    ELSE LET el == Head(pat)
         IN  IF el.k = "c"
             THEN IF i <= Len(s) /\ s[i] \in el.set
                  THEN MatchAt(s, i + 1, Tail(pat))
                  ELSE NoMatch
             ELSE TryRun(s, i, pat, el.hi)
TryRun(s, i, pat, n) ==
    IF n < Head(pat).lo THEN NoMatch
    ELSE LET rest == IF AllDigits(s, i, n)
                     THEN MatchAt(s, i + n, Tail(pat))
                     ELSE NoMatch
         IN  IF rest.ok
             THEN [ok |-> TRUE, g |-> <<SubSeq(s, i, i + n - 1)>> \o rest.g]
             ELSE TryRun(s, i, pat, n - 1)

\* re.search(pat, s): the match at the leftmost position that has one.
Search(s, pat) ==
    LET hits == {i \in 1..Len(s) : MatchAt(s, i, pat).ok}
    IN  IF hits = {} THEN NoMatch
        ELSE MatchAt(s, CHOOSE i \in hits : \A j \in hits : i <= j, pat)

\* the three date patterns shared by ExcelParser._parse_date and
\* PDFParser.PATTERNS['date']
date_patterns ==
    << <<D(4, 4), C({"/", "-"}), D(1, 2), C({"/", "-"}), D(1, 2)>>,
       <<D(1, 2), C({"/", "-"}), D(1, 2), C({"/", "-"}), D(4, 4)>>,
       <<D(4, 4), C({"u5e74"}), D(1, 2), C({"u6708"}), D(1, 2), C({"u65e5"})>> >>

\* date(int(year), int(month), int(day)).strftime('%Y-%m-%d'), or ValueError
IsoDate(y, m, d) == IF ValidYMD(y, m, d) THEN Str(Strftime(y, m, d)) ELSE ValueError

\* variant: the groups are always read as year, month, day
GroupsDate_year_first(g) ==
    IsoDate(DigitsToNat(g[1]), DigitsToNat(g[2]), DigitsToNat(g[3]))

\* the groups of a match: year first when group 1 has four digits, else
\* month, day, year
GroupsDate(g) ==
    IF Len(g[1]) = 4
    THEN IsoDate(DigitsToNat(g[1]), DigitsToNat(g[2]), DigitsToNat(g[3]))
    ELSE IsoDate(DigitsToNat(g[3]), DigitsToNat(g[1]), DigitsToNat(g[2]))

MatchDate(mt) == IF mt.ok THEN GroupsDate(mt.g) ELSE ValueError

\* The loop over the patterns: the first pattern that matches and forms a
\* calendar date gives the ISO string; a ValueError continues with the next.
RECURSIVE DateByPatterns(_, _)
FirstDate(date, s, pats) == IF IsError(date) THEN DateByPatterns(s, pats) ELSE date
DateByPatterns(s, pats) ==
    IF pats = <<>> THEN None
    ELSE FirstDate(MatchDate(Search(s, Head(pats))), s, Tail(pats))
----------------------------------------------------------------------------
(* services/excel_parser.py: ExcelParser                                   *)
(* A worksheet is a non-empty sequence of rows of equal width; a cell is a *)
(* Python value (None for an empty cell).                                  *)

COLUMN_KEYWORDS ==
    << [field |-> "date",
        keywords |-> <<<<"u65e5", "u671f">>, <<"d", "a", "t", "e">>, <<"u65f6", "u95f4">>, <<"t", "i", "m", "e">>, <<"u65e5">>, <<"d", "a", "y">>>>],
       [field |-> "type",
        keywords |-> <<<<"u7c7b", "u578b">>, <<"t", "y", "p", "e">>, <<"u79cd", "u7c7b">>, <<"c", "a", "t", "e", "g", "o", "r", "y">>>>],
       [field |-> "name",
        keywords |-> <<<<"u540d", "u79f0">>, <<"n", "a", "m", "e">>, <<"u9879", "u76ee">>, <<"i", "t", "e", "m">>>>],
       [field |-> "meal_time",
        keywords |-> <<<<"u9910", "u6b21">>, <<"u7528", "u9910", "u65f6", "u95f4">>, <<"m", "e", "a", "l">>, <<"u9910", "u98df", "u65f6", "u95f4">>, <<"u65e9", "u4e2d", "u665a">>, <<"m", "e", "a", "l", " ", "t", "i", "m", "e">>>>],
       [field |-> "food",
        keywords |-> <<<<"u98df", "u7269">>, <<"u98df", "u54c1">>, <<"f", "o", "o", "d">>, <<"u83dc", "u54c1">>, <<"u9910", "u98df", "u5185", "u5bb9">>, <<"u5185", "u5bb9">>>>],
       [field |-> "calories",
        keywords |-> <<<<"u70ed", "u91cf">>, <<"u5361", "u8def", "u91cc">>, <<"c", "a", "l", "o", "r", "i", "e", "s">>, <<"k", "c", "a", "l">>, <<"u80fd", "u91cf">>, <<"c", "a", "l", "o", "r", "i", "e">>>>],
       [field |-> "exercise",
        keywords |-> <<<<"u8fd0", "u52a8">>, <<"u953b", "u70bc">>, <<"e", "x", "e", "r", "c", "i", "s", "e">>, <<"u8bad", "u7ec3">>, <<"u6d3b", "u52a8">>>>],
       [field |-> "duration",
        keywords |-> <<<<"u65f6", "u957f">>, <<"u65f6", "u95f4">>, <<"d", "u", "r", "a", "t", "i", "o", "n">>, <<"t", "i", "m", "e">>, <<"u5206", "u949f">>, <<"m", "i", "n">>, <<"m", "i", "n", "u", "t", "e">>>>],
       [field |-> "notes",
        keywords |-> <<<<"u5907", "u6ce8">>, <<"u8bf4", "u660e">>, <<"n", "o", "t", "e", "s">>, <<"r", "e", "m", "a", "r", "k">>, <<"u63cf", "u8ff0">>, <<"n", "o", "t", "e">>>>] >>

\* any(keyword.lower() in cell_str for keyword in keywords)
HasKeyword(cell_str, keywords) ==
    \E i \in 1..Len(keywords) : Contains(cell_str, Lower(keywords[i]))

\* the fields, in dictionary order, whose keywords the cell contains
MatchingFields(cell) ==
    {f \in 1..Len(COLUMN_KEYWORDS) :
        HasKeyword(Lower(PyStr(cell)), COLUMN_KEYWORDS[f].keywords)}

\* keyword_count >= non_empty_count * 0.4, in tenths.  (The float product is
\* exact for every count below 15.)
ExcelParser_is_header_row(row) ==
    IF row = <<>> THEN FALSE
    ELSE LET non_empty == {c \in 1..Len(row) : Truthy(row[c])}
             keyword == {c \in non_empty : MatchingFields(row[c]) # {}}
         IN  /\ Cardinality(non_empty) > 0
             /\ 10 * Cardinality(keyword) >= 4 * Cardinality(non_empty)

\* column_mapping after _map_columns: header_row and, per field, the last
\* column whose first matching field it is.
ExcelParser_map_columns(header_row, row_idx) ==
    LET fieldAt == [c \in 1..Len(header_row) |->
                      IF Truthy(header_row[c]) /\ MatchingFields(header_row[c]) # {}
                      THEN COLUMN_KEYWORDS[
                               CHOOSE f \in MatchingFields(header_row[c]) :
                                   \A g \in MatchingFields(header_row[c]) : f <= g].field
                      ELSE "-"]
        fields == {fieldAt[c] : c \in 1..Len(header_row)} \ {"-"}
    IN  [k \in {"header_row"} \cup fields |->
            IF k = "header_row" THEN row_idx
            ELSE CHOOSE c \in 1..Len(header_row) :
                    /\ fieldAt[c] = k
                    /\ \A c2 \in 1..Len(header_row) : fieldAt[c2] = k => c2 <= c]

\* variant: the positional mapping puts the header above the sheet
ExcelParser_use_default_mapping_row_0 ==
    [header_row |-> 0, date |-> 1, meal_time |-> 2, food |-> 3, calories |-> 4,
     exercise |-> 5, duration |-> 6, notes |-> 7]

ExcelParser_use_default_mapping ==
    [header_row |-> 1, date |-> 1, meal_time |-> 2, food |-> 3, calories |-> 4,
     exercise |-> 5, duration |-> 6, notes |-> 7]

\* variant: every row of the sheet is scanned for a header
ExcelParser_identify_columns_all_rows(ws) ==
    LET scanned == 1..Len(ws)
        headers == {r \in scanned : ExcelParser_is_header_row(ws[r])}
        first == CHOOSE r \in headers : \A r2 \in headers : r <= r2
        mapping == IF headers = {} THEN EmptyDict
                   ELSE ExcelParser_map_columns(ws[first], first)
    IN  IF DOMAIN mapping = {} THEN ExcelParser_use_default_mapping ELSE mapping

\* range(1, min(6, max_row + 1)): the first header row found is mapped, and
\* an empty mapping falls back to the default.
ExcelParser_identify_columns(ws) ==
    LET scanned == 1..(IF Len(ws) < 5 THEN Len(ws) ELSE 5)
        headers == {r \in scanned : ExcelParser_is_header_row(ws[r])}
        first == CHOOSE r \in headers : \A r2 \in headers : r <= r2
        mapping == IF headers = {} THEN EmptyDict
                   ELSE ExcelParser_map_columns(ws[first], first)
    IN  IF DOMAIN mapping = {} THEN ExcelParser_use_default_mapping ELSE mapping

\* variant: _identify_columns keeps the mapping the instance already has
ColumnMappingReset_kept(column_mapping) == column_mapping

\* line 91: self.column_mapping = {}
ColumnMappingReset(column_mapping) == EmptyDict

\* lines 93-108 on the instance's mapping: _map_columns replaces the mapping
\* when a header row is found, and only an empty mapping gets the default
ExcelParser_scan_rows(column_mapping, ws) ==
    LET scanned == 1..(IF Len(ws) < 5 THEN Len(ws) ELSE 5)
        headers == {r \in scanned : ExcelParser_is_header_row(ws[r])}
        first == CHOOSE r \in headers : \A r2 \in headers : r <= r2
    IN  IF headers # {} THEN ExcelParser_map_columns(ws[first], first)
        ELSE IF DOMAIN column_mapping = {} THEN ExcelParser_use_default_mapping
        ELSE column_mapping

ExcelParser_parse_date(value) ==
    IF ~Truthy(value) THEN None
    ELSE IF value.t = "date" THEN Str(Strftime(value.y, value.m, value.d))
    ELSE IF value.t = "str" THEN DateByPatterns(value.s, date_patterns)
    ELSE None

\* re.sub(r'[^\d.-]', '', value)
KeepNumberChars(s) == SelectSeq(s, LAMBDA c : IsDigit(c) \/ c \in {".", "-"})

ExcelParser_parse_number(value) ==
    IF ~Truthy(value) THEN None
    ELSE IF value.t \in {"int", "float"} THEN PyFloat(value)
    ELSE IF value.t = "str"
         THEN LET f == FloatOfStr(KeepNumberChars(value.s))
              IN  IF IsError(f) THEN None ELSE f
    ELSE None

ExcelParser_parse_text(value) ==
    IF ~Truthy(value) THEN None ELSE Str(Strip(PyStr(value)))

\* worksheet.cell(row_idx, col_idx).value
Cell(ws, r, c) == IF c <= Len(ws[r]) THEN ws[r][c] ELSE None

\* the value of a field from its cell
ExcelParser_extract_cell(field, cell_value) ==
    IF field = "date" THEN ExcelParser_parse_date(cell_value)
    ELSE IF field \in {"calories", "duration"} THEN ExcelParser_parse_number(cell_value)
    ELSE ExcelParser_parse_text(cell_value)

ExcelParser_extract_row(ws, column_mapping, row_idx) ==
    [field \in (DOMAIN column_mapping) \ {"header_row"} |->
        ExcelParser_extract_cell(field, Cell(ws, row_idx, column_mapping[field]))]

\* any(d.values())
AnyValue(d) == \E k \in DOMAIN d : Truthy(d[k])

ExcelParser_extract_data(ws, column_mapping) ==
    LET header_row == Get(column_mapping, "header_row", 1)
        n == IF Len(ws) > header_row THEN Len(ws) - header_row ELSE 0
        all == [i \in 1..n |-> ExcelParser_extract_row(ws, column_mapping, header_row + i)]
    IN  SelectSeq(all, LAMBDA row_data : DOMAIN row_data # {} /\ AnyValue(row_data))

\* parse_file: a workbook that cannot be opened raises; otherwise the rows.
ExcelParser_parse_file(content) ==
    IF content.kind # "workbook" THEN [exc |-> "ExcelParseError"]
    ELSE [exc |-> "",
          data |-> ExcelParser_extract_data(content.sheet,
                       ExcelParser_identify_columns(content.sheet))]

----------------------------------------------------------------------------
(* services/excel_parser.py: convert_to_plan_items *)

MealTypes == {<<"u9910", "u98df">>, <<"m", "e", "a", "l">>, <<"u98df", "u7269">>}
ExerciseTypes == {<<"u8fd0", "u52a8">>, <<"e", "x", "e", "r", "c", "i", "s", "e">>, <<"u953b", "u70bc">>}
Unspecified == Str(<<"u672a", "u6307", "u5b9a">>)

MealOf(row, food) ==
    [date |-> Get(row, "date", None),
     meal_time |-> Get(row, "meal_time", Unspecified),
     food |-> food,
     calories |-> Get(row, "calories", PyInt(0)),
     notes |-> Get(row, "notes", None)]

ExerciseOf(row, name) ==
    [date |-> Get(row, "date", None),
     name |-> name,
     duration |-> Get(row, "duration", PyInt(0)),
     calories_burned |-> Get(row, "calories", PyInt(0)),
     notes |-> Get(row, "notes", None)]

\* row.get('type', '').strip() raises AttributeError on a value without strip
StripRaises(row) ==
    \/ Get(row, "type", Str(<<>>)).t # "str"
    \/ Get(row, "name", Str(<<>>)).t # "str"

\* the entries one row contributes
RowItems(row) ==
    LET item_type == Strip(Get(row, "type", Str(<<>>)).s)
        item_name == Strip(Get(row, "name", Str(<<>>)).s)
    IN  IF item_type # <<>> /\ item_name # <<>>
        THEN IF item_type \in MealTypes
             THEN [meals |-> <<MealOf(row, Str(item_name))>>, exercises |-> <<>>]
             ELSE IF item_type \in ExerciseTypes
             THEN [meals |-> <<>>, exercises |-> <<ExerciseOf(row, Str(item_name))>>]
             ELSE [meals |-> <<>>, exercises |-> <<>>]
        ELSE [meals |-> IF Truthy(Get(row, "food", None))
                        THEN <<MealOf(row, row["food"])>> ELSE <<>>,
              exercises |-> IF Truthy(Get(row, "exercise", None))
                            THEN <<ExerciseOf(row, row["exercise"])>> ELSE <<>>]

RECURSIVE ConvertRows(_, _, _)
ConvertRows(parsed, meals, exercises) ==
    IF parsed = <<>> THEN [exc |-> "", meals |-> meals, exercises |-> exercises]
    ELSE IF StripRaises(Head(parsed)) THEN [exc |-> "AttributeError"]
    ELSE ConvertRows(Tail(parsed),
                     meals \o RowItems(Head(parsed)).meals,
                     exercises \o RowItems(Head(parsed)).exercises)

convert_to_plan_items(parsed) == ConvertRows(parsed, <<>>, <<>>)

----------------------------------------------------------------------------
(* services/data_validator.py *)

ValidationError(error_type, field, message, row_index, value) ==
    [error_type |-> error_type, field |-> field, message |-> message,
     row_index |-> row_index, value |-> value]

\* ValidationResult.__init__
NewResult == [errors |-> <<>>, warnings |-> <<>>]

add_error(result, error_type, field, message, row_index, value) ==
    [result EXCEPT !.errors =
        Append(@, ValidationError(error_type, field, message, row_index, value))]

\* variant: a warning recorded in the error list
add_warning_into_errors(result, message) ==
    [result EXCEPT !.errors = Append(@, message)]

add_warning(result, message) ==
    [result EXCEPT !.warnings = Append(@, message)]

is_valid(result) == Len(result.errors) = 0

REQUIRED_FIELDS == [meal |-> <<"date">>, exercise |-> <<"date">>]
\* variant: calories not among the recommended meal fields
RECOMMENDED_FIELDS_without_calories ==
    [meal |-> <<"meal_time", "food">>, exercise |-> <<"name", "duration">>]

RECOMMENDED_FIELDS ==
    [meal |-> <<"meal_time", "food", "calories">>, exercise |-> <<"name", "duration">>]

\* datetime.strptime(s, fmt) does not raise, for fmt '%Y<sep>%m<sep>%d'
\* (year_first) or '%d<sep>%m<sep>%Y': the whole string is three digit runs
\* (%Y four digits, %m and %d one or two) joined by sep, and forms a date.
StrptimeOk(s, sep, year_first) ==
    LET pat == IF year_first
               THEN <<D(4, 4), C({sep}), D(1, 2), C({sep}), D(1, 2)>>
               ELSE <<D(1, 2), C({sep}), D(1, 2), C({sep}), D(4, 4)>>
        mt == MatchAt(s, 1, pat)
        g == mt.g
        whole == Len(g[1]) + Len(g[2]) + Len(g[3]) + 2 = Len(s)
        y == DigitsToNat(IF year_first THEN g[1] ELSE g[3])
        m == DigitsToNat(g[2])
        d == DigitsToNat(IF year_first THEN g[3] ELSE g[1])
    IN  mt.ok /\ whole /\ ValidYMD(y, m, d)

_is_valid_date(value) ==
    IF value.t = "date" THEN TRUE
    ELSE IF value.t = "str"
         THEN \/ StrptimeOk(value.s, "-", TRUE)
              \/ StrptimeOk(value.s, "/", TRUE)
              \/ StrptimeOk(value.s, "-", FALSE)
              \/ StrptimeOk(value.s, "/", FALSE)
    ELSE FALSE

\* variant: the upper bound excluded
_is_valid_number_exclusive(value, min_value, max_value) ==
    LET num == PyFloat(value)
    IN  IF IsError(num) THEN FALSE
        ELSE IF FloatLess(num, Float(min_value, 0)) THEN FALSE
        ELSE IF ~FloatLess(num, Float(max_value, 0)) THEN FALSE
        ELSE TRUE

_is_valid_number(value, min_value, max_value) ==
    LET num == PyFloat(value)
    IN  IF IsError(num) THEN FALSE
        ELSE IF FloatLess(num, Float(min_value, 0)) THEN FALSE
        ELSE IF FloatLess(Float(max_value, 0), num) THEN FALSE
        ELSE TRUE

_is_valid_text(value, max_length) ==
    IF value.t # "str" THEN FALSE ELSE Len(value.s) <= max_length

\* variant: only an absent key counts as missing
MissingOf_absent_only(row, fields) ==
    SelectSeq(fields, LAMBDA f : f \notin DOMAIN row)

\* the fields of a list that `not row.get(field)` holds for, in list order
MissingOf(row, fields) ==
    SelectSeq(fields, LAMBDA f : ~Truthy(Get(row, f, None)))

RECURSIVE AddMissingRequired(_, _, _)
AddMissingRequired(result, missing, row_index) ==
    IF missing = <<>> THEN result
    ELSE AddMissingRequired(
             add_error(result, "missing_required_field", Head(missing),
                       [text |-> "missing required field", field |-> Head(missing)],
                       PyInt(row_index), None),
             Tail(missing), row_index)

text_fields == <<"food", "meal_time", "exercise", "name", "notes">>

RECURSIVE AddTextErrors(_, _, _, _)
AddTextErrors(result, row, fields, row_index) ==
    IF fields = <<>> THEN result
    ELSE LET field == Head(fields)
             bad == /\ field \in DOMAIN row
                    /\ Truthy(row[field])
                    /\ ~_is_valid_text(row[field], 500)
         IN  AddTextErrors(
                 IF bad
                 THEN add_error(result, "invalid_value", field,
                                [text |-> "text too long (max 500 characters)",
                                 field |-> field],
                                PyInt(row_index), None)
                 ELSE result,
                 row, Tail(fields), row_index)

\* _validate_row, lines 196-205: required fields of the data type
RequiredChecked(row, row_index, data_type, result) ==
    IF data_type \in DOMAIN REQUIRED_FIELDS
    THEN AddMissingRequired(result, MissingOf(row, REQUIRED_FIELDS[data_type]), row_index)
    ELSE result

WarnMissing(result, row_index, missing_recommended) ==
    IF missing_recommended # <<>>
    THEN add_warning(result, [text |-> "row lacks recommended fields",
                              row_index |-> row_index,
                              fields |-> missing_recommended])
    ELSE result

\* lines 207-217: recommended fields of the data type
RecommendedChecked(row, row_index, data_type, result) ==
    WarnMissing(result, row_index,
                IF data_type \in DOMAIN RECOMMENDED_FIELDS
                THEN MissingOf(row, RECOMMENDED_FIELDS[data_type])
                ELSE <<>>)

\* lines 219-228: the date, when present
DateChecked(row, row_index, result) ==
    IF "date" \in DOMAIN row /\ Truthy(row["date"]) /\ ~_is_valid_date(row["date"])
    THEN add_error(result, "invalid_format", "date",
                   [text |-> "invalid date format", arg |-> row["date"]],
                   PyInt(row_index), row["date"])
    ELSE result

\* lines 230-239: calories, when not None
CaloriesChecked(row, row_index, result) ==
    IF "calories" \in DOMAIN row /\ row["calories"] # None
       /\ ~_is_valid_number(row["calories"], 0, 10000)
    THEN add_error(result, "invalid_value", "calories",
                   [text |-> "calories invalid or out of range (0-10000)",
                    range |-> <<0, 10000>>, arg |-> row["calories"]],
                   PyInt(row_index), row["calories"])
    ELSE result

\* lines 241-249: duration, when not None
DurationChecked(row, row_index, result) ==
    IF "duration" \in DOMAIN row /\ row["duration"] # None
       /\ ~_is_valid_number(row["duration"], 0, 1440)
    THEN add_error(result, "invalid_value", "duration",
                   [text |-> "duration invalid or out of range (0-1440 minutes)",
                    range |-> <<0, 1440>>, arg |-> row["duration"]],
                   PyInt(row_index), row["duration"])
    ELSE result

\* the checks of one row, in the order of the code
_validate_row(row, row_index, data_type, result) ==
    AddTextErrors(
        DurationChecked(row, row_index,
            CaloriesChecked(row, row_index,
                DateChecked(row, row_index,
                    RecommendedChecked(row, row_index, data_type,
                        RequiredChecked(row, row_index, data_type, result))))),
        row, text_fields, row_index)

\* variant: the loop over the rows stops at the first row with an error
RECURSIVE ValidateRows_first_failure(_, _, _, _)
ValidateRows_first_failure(data, idx, data_type, result) ==
    IF idx > Len(data) \/ result.errors # <<>> THEN result
    ELSE ValidateRows_first_failure(data, idx + 1, data_type,
                                    _validate_row(data[idx], idx, data_type, result))

\* for idx, row in enumerate(data, start=1): self._validate_row(...)
RECURSIVE ValidateRows(_, _, _, _)
ValidateRows(data, idx, data_type, result) ==
    IF idx > Len(data) THEN result
    ELSE ValidateRows(data, idx + 1, data_type,
                      _validate_row(data[idx], idx, data_type, result))

\* lines 174-176: the summary warning of a result without errors
Summed(result, count) ==
    IF is_valid(result)
    THEN add_warning(result, [text |-> "validated rows", count |-> count])
    ELSE result

\* variant: no check for an empty list
validate_parsed_data_unguarded(data, data_type) ==
    Summed(ValidateRows(data, 1, data_type, NewResult), Len(data))

validate_parsed_data(data, data_type) ==
    IF data = <<>>
    THEN add_error(NewResult, "empty_data", "data",
                   [text |-> "parse result is empty, no valid data found"], None, None)
    ELSE Summed(ValidateRows(data, 1, data_type, NewResult), Len(data))

----------------------------------------------------------------------------
(* services/pdf_parser.py: PDFParser                                       *)
(* A page is [tables, text]: the tables pdfplumber extracts (each a        *)
(* sequence of rows of cells, a cell a str or None) and the page text as   *)
(* its sequence of lines (text.split('\n')).                               *)

\* re.search of an alternation of literals: the leftmost position where an
\* alternative matches, and there the first alternative that does.
AltSearch(s, alts) ==
    LET at(i0, a0) ==
            [ok |-> TRUE, start |-> i0, stop |-> i0 + Len(alts[a0]), alt |-> alts[a0]]
        first(i0) == at(i0, Min({a \in 1..Len(alts) : StartsWithAt(s, i0, alts[a])}))
        found(hits) == IF hits = {} THEN [ok |-> FALSE] ELSE first(Min(hits))
    IN  found({i \in 1..Len(s) : \E a \in 1..Len(alts) : StartsWithAt(s, i, alts[a])})

\* length of the match of \d+(?:\.\d+)? at position i (0: no match)
RECURSIVE DigitRun(_, _)
DigitRun(s, i) == IF i <= Len(s) /\ IsDigit(s[i]) THEN 1 + DigitRun(s, i + 1) ELSE 0
NumberLen(s, i) ==
    LET total(ip, fp) == IF ip = 0 THEN 0 ELSE IF fp > 0 THEN ip + 1 + fp ELSE ip
        fraction(ip) ==
            total(ip, IF ip > 0 /\ i + ip <= Len(s) /\ s[i + ip] = "."
                      THEN DigitRun(s, i + ip + 1) ELSE 0)
    IN  fraction(DigitRun(s, i))

RECURSIVE SpaceRun(_, _)
SpaceRun(s, i) == IF i <= Len(s) /\ IsSpace(s[i]) THEN 1 + SpaceRun(s, i + 1) ELSE 0

\* match of (\d+(?:\.\d+)?)\s*(?:u1|u2|...) at position i: its length and
\* the length of group 1 (len = 0: no match).  The first unit alternative
\* that matches ends the match.
NumUnitAt(s, i, units) ==
    LET unit(n, sp, us) ==
            IF n = 0 \/ us = {} THEN [len |-> 0, num |-> 0]
            ELSE [len |-> n + sp + Len(units[Min(us)]), num |-> n]
        spaces(n, sp) ==
            unit(n, sp, {u \in 1..Len(units) : StartsWithAt(s, i + n + sp, units[u])})
        number(n) == spaces(n, SpaceRun(s, i + n))
    IN  number(NumberLen(s, i))

\* re.search of the number-with-unit pattern
NumUnitSearch(s, units) ==
    LET groups(i0, m) ==
            [ok |-> TRUE,
             number |-> SubSeq(s, i0, i0 + m.num - 1),
             whole |-> SubSeq(s, i0, i0 + m.len - 1)]
        at(i0) == groups(i0, NumUnitAt(s, i0, units))
        found(hits) == IF hits = {} THEN [ok |-> FALSE] ELSE at(Min(hits))
    IN  found({i \in 1..Len(s) : NumUnitAt(s, i, units).len > 0})

CalorieUnits == <<<<"u5361">>, <<"u5361", "u8def", "u91cc">>, <<"k", "c", "a", "l">>, <<"c", "a", "l">>>>
DurationUnits == <<<<"u5206", "u949f">>, <<"u5c0f", "u65f6">>, <<"m", "i", "n">>, <<"h", "o", "u", "r">>>>

\* re.sub(r'\d+(?:\.\d+)?\s*(?:卡|卡路里|kcal|cal)', '', s)
RECURSIVE RemoveCalories(_, _)
RemoveCalories(s, i) ==
    LET rest(n) == IF n > 0 THEN RemoveCalories(s, i + n)
                   ELSE <<s[i]>> \o RemoveCalories(s, i + 1)
    IN  IF i > Len(s) THEN <<>> ELSE rest(NumUnitAt(s, i, CalorieUnits).len)

\* re.sub(r'^[:：\s]+', '', s)
RECURSIVE DropSeparators(_)
DropSeparators(s) ==
    IF s # <<>> /\ (Head(s) \in {":", "uff1a"} \/ IsSpace(Head(s)))
    THEN DropSeparators(Tail(s)) ELSE s

PDFParser_extract_date(line) == DateByPatterns(line, date_patterns)

\* PATTERNS['meal_time'], matched with re.IGNORECASE
MealTimePatterns ==
    << <<<<"u65e9", "u9910">>, <<"u5348", "u9910">>, <<"u665a", "u9910">>, <<"u52a0", "u9910">>>>,
       <<<<"b", "r", "e", "a", "k", "f", "a", "s", "t">>, <<"l", "u", "n", "c", "h">>, <<"d", "i", "n", "n", "e", "r">>, <<"s", "n", "a", "c", "k">>>> >>

\* per pattern: meal_time is the match, food the text after it without
\* calories and leading separators; a match with empty food goes on to the
\* next pattern
RECURSIVE MealInfoByPatterns(_, _)
MealInfoByPatterns(line, pats) ==
    LET info(mt, food_text) ==
            IF mt.ok /\ food_text # <<>>
            THEN [meal_time |-> Str(SubSeq(line, mt.start, mt.stop - 1)),
                  food |-> Str(food_text)]
            ELSE MealInfoByPatterns(line, Tail(pats))
        found(mt) ==
            info(mt, Strip(DropSeparators(Strip(RemoveCalories(
                         Strip(SubSeq(line, mt.stop, Len(line))), 1)))))
    IN  IF pats = <<>> THEN None ELSE found(AltSearch(Lower(line), Head(pats)))

\* a dict, or None
PDFParser_extract_meal_info(line) == MealInfoByPatterns(line, MealTimePatterns)

PDFParser_extract_duration(line) ==
    LET minutes(mt, duration) ==
            IF Contains(mt.whole, <<"u5c0f", "u65f6">>) \/ Contains(mt.whole, <<"h", "o", "u", "r">>)
            THEN NormFloat(duration.m * 60, duration.e)
            ELSE duration
        found(mt) == IF ~mt.ok THEN None ELSE minutes(mt, FloatOfStr(mt.number))
    IN  found(NumUnitSearch(line, DurationUnits))

PDFParser_extract_calories(line) ==
    LET found(mt) == IF mt.ok THEN FloatOfStr(mt.number) ELSE None
    IN  found(NumUnitSearch(line, CalorieUnits))

\* PATTERNS['exercise'], matched with re.IGNORECASE:
\* (运动|锻炼|训练)[:：]\s*(.+)  then  (跑步|游泳|瑜伽|力量训练|有氧运动)
PDFParser_extract_exercise_info(line) ==
    LET labels == <<<<"u8fd0", "u52a8">>, <<"u953b", "u70bc">>, <<"u8bad", "u7ec3">>>>
        names == <<<<"u8dd1", "u6b65">>, <<"u6e38", "u6cf3">>, <<"u745c", "u4f3d">>, <<"u529b", "u91cf", "u8bad", "u7ec3">>, <<"u6709", "u6c27", "u8fd0", "u52a8">>>>
        result(exercise_name, duration) ==
            IF Truthy(duration)
            THEN [exercise |-> Str(exercise_name), duration |-> duration]
            ELSE [exercise |-> Str(exercise_name)]
        named(exercise_name) == result(exercise_name, PDFParser_extract_duration(line))
        second(m2) == IF m2.ok THEN named(Strip(m2.alt)) ELSE None
        first(hits1) ==
            IF hits1 # {} THEN named(Strip(SubSeq(line, Min(hits1) + 3, Len(line))))
            ELSE second(AltSearch(line, names))
    IN  first({i \in 1..Len(line) :
                  /\ \E a \in 1..Len(labels) : StartsWithAt(line, i, labels[a])
                  /\ i + 3 <= Len(line)
                  /\ line[i + 2] \in {":", "uff1a"}})

\* _parse_text keeps st = [data, current_item, current_date].
\* if current_item and any(current_item.values()): data.append(current_item)
ItemAppended(data, current_item) ==
    IF DOMAIN current_item # {} /\ AnyValue(current_item)
    THEN Append(data, current_item) ELSE data

\* a meal or exercise line: an item with more than its date is appended and
\* a new one started; the info is merged into the current item
InfoMerged(st, info) ==
    IF DOMAIN st.current_item # {} /\ \E k \in DOMAIN st.current_item : k # "date"
    THEN [st EXCEPT !.data = Append(@, st.current_item),
                    !.current_item = Update([date |-> st.current_date], info)]
    ELSE [st EXCEPT !.current_item = Update(@, info)]

\* variant: a calorie value replaces the one the item already has
CaloriesLine_overwriting(st, calories) ==
    IF Truthy(calories)
    THEN [st EXCEPT !.current_item = Update(@, [calories |-> calories])]
    ELSE st

CaloriesLine(st, calories) ==
    IF Truthy(calories) /\ "calories" \notin DOMAIN st.current_item
    THEN [st EXCEPT !.current_item = Update(@, [calories |-> calories])]
    ELSE st

ExerciseLine(st, line, exercise_info) ==
    IF exercise_info # None THEN InfoMerged(st, exercise_info)
    ELSE CaloriesLine(st, PDFParser_extract_calories(line))

MealLine(st, line, meal_info) ==
    IF meal_info # None THEN InfoMerged(st, meal_info)
    ELSE ExerciseLine(st, line, PDFParser_extract_exercise_info(line))

\* variant: lines are taken into the item before any date line was seen
DateLine_without_current_date(st, line, date_value) ==
    IF Truthy(date_value)
    THEN [data |-> ItemAppended(st.data, st.current_item),
          current_item |-> [date |-> date_value],
          current_date |-> date_value]
    ELSE MealLine(st, line, PDFParser_extract_meal_info(line))

DateLine(st, line, date_value) ==
    IF Truthy(date_value)
    THEN [data |-> ItemAppended(st.data, st.current_item),
          current_item |-> [date |-> date_value],
          current_date |-> date_value]
    ELSE IF ~Truthy(st.current_date) THEN st
    ELSE MealLine(st, line, PDFParser_extract_meal_info(line))

\* one pass of the loop body, for the stripped line
ParseLine(st, line) ==
    IF line = <<>> THEN st ELSE DateLine(st, line, PDFParser_extract_date(line))

\* the loop of _parse_text over the remaining lines, and the final append
RECURSIVE ParseLines(_, _)
ParseLines(lines, st) ==
    IF lines = <<>> THEN ItemAppended(st.data, st.current_item)
    ELSE ParseLines(Tail(lines), ParseLine(st, Strip(Head(lines))))

PDFParser_parse_text(lines) ==
    ParseLines(lines, [data |-> <<>>, current_item |-> EmptyDict, current_date |-> None])

\* COLUMN_KEYWORDS of PDFParser (table headers)
PDF_COLUMN_KEYWORDS ==
    << [field |-> "date", keywords |-> <<<<"u65e5", "u671f">>, <<"d", "a", "t", "e">>, <<"u65f6", "u95f4">>>>],
       [field |-> "meal_time", keywords |-> <<<<"u9910", "u6b21">>, <<"m", "e", "a", "l">>, <<"u7528", "u9910">>>>],
       [field |-> "food", keywords |-> <<<<"u98df", "u7269">>, <<"f", "o", "o", "d">>, <<"u83dc", "u54c1">>>>],
       [field |-> "calories", keywords |-> <<<<"u70ed", "u91cf">>, <<"c", "a", "l", "o", "r", "i", "e", "s">>, <<"k", "c", "a", "l">>>>],
       [field |-> "exercise", keywords |-> <<<<"u8fd0", "u52a8">>, <<"e", "x", "e", "r", "c", "i", "s", "e">>, <<"u953b", "u70bc">>>>],
       [field |-> "duration", keywords |-> <<<<"u65f6", "u957f">>, <<"d", "u", "r", "a", "t", "i", "o", "n">>, <<"u5206", "u949f">>>>],
       [field |-> "notes", keywords |-> <<<<"u5907", "u6ce8">>, <<"n", "o", "t", "e", "s">>, <<"u8bf4", "u660e">>>>] >>

\* field -> 0-based column index
PDFParser_map_table_columns(headers) ==
    LET matching(c) == {f \in 1..Len(PDF_COLUMN_KEYWORDS) :
                          \E k \in 1..Len(PDF_COLUMN_KEYWORDS[f].keywords) :
                              Contains(Lower(PyStr(headers[c])),
                                       PDF_COLUMN_KEYWORDS[f].keywords[k])}
        fieldAt == [c \in 1..Len(headers) |->
                      IF Truthy(headers[c]) /\ matching(c) # {}
                      THEN PDF_COLUMN_KEYWORDS[
                               CHOOSE f \in matching(c) : \A g \in matching(c) : f <= g].field
                      ELSE "-"]
        fields == {fieldAt[c] : c \in 1..Len(headers)} \ {"-"}
    IN  [k \in fields |->
            (CHOOSE c \in 1..Len(headers) :
                /\ fieldAt[c] = k
                /\ \A c2 \in 1..Len(headers) : fieldAt[c2] = k => c2 <= c) - 1]

PDFParser_parse_date(value) ==
    IF ~Truthy(value) THEN None ELSE PDFParser_extract_date(PyStr(value))

\* the first \d+(?:\.\d+)? of the text, as a float
PDFParser_parse_number(value) ==
    LET s == PyStr(value)
        hits == {i \in 1..Len(s) : IsDigit(s[i])}
        i0 == CHOOSE i \in hits : \A j \in hits : i <= j
    IN  IF ~Truthy(value) \/ hits = {} THEN None
        ELSE FloatOfStr(SubSeq(s, i0, i0 + NumberLen(s, i0) - 1))

\* re.sub(r'\s+', ' ', s)
RECURSIVE CollapseSpaces(_)
CollapseSpaces(s) ==
    IF s = <<>> THEN <<>>
    ELSE IF IsSpace(Head(s))
         THEN <<" ">> \o CollapseSpaces(SubSeq(s, 1 + SpaceRun(s, 1), Len(s)))
         ELSE <<Head(s)>> \o CollapseSpaces(Tail(s))

PDFParser_clean_text(value) ==
    IF ~Truthy(value) THEN None
    ELSE LET cleaned == Strip(CollapseSpaces(PyStr(value)))
         IN  IF cleaned # <<>> THEN Str(cleaned) ELSE None

\* the value of a field from its cell
PDFParser_extract_cell(field, cell_value) ==
    IF field = "date" THEN PDFParser_parse_date(cell_value)
    ELSE IF field \in {"calories", "duration"} THEN PDFParser_parse_number(cell_value)
    ELSE PDFParser_clean_text(cell_value)

PDFParser_extract_table_row(row, column_mapping) ==
    [field \in {f \in DOMAIN column_mapping : column_mapping[f] < Len(row)} |->
        PDFParser_extract_cell(field, row[column_mapping[field] + 1])]

PDFParser_process_table(table) ==
    IF Len(table) < 2 THEN <<>>
    ELSE LET column_mapping == PDFParser_map_table_columns(table[1])
             kept == SelectSeq(Tail(table),
                         LAMBDA row : \E c \in 1..Len(row) : Truthy(row[c]))
             rows == [i \in 1..Len(kept) |->
                         PDFParser_extract_table_row(kept[i], column_mapping)]
         IN  SelectSeq(rows, LAMBDA row_data : DOMAIN row_data # {} /\ AnyValue(row_data))

RECURSIVE ProcessTables(_)
ProcessTables(tables) ==
    IF tables = <<>> THEN <<>>
    ELSE PDFParser_process_table(Head(tables)) \o ProcessTables(Tail(tables))

\* for page in pdf.pages: the rows of the page's tables, then of its text
RECURSIVE ParsePages(_)
ParsePages(pages) ==
    IF pages = <<>> THEN <<>>
    ELSE ProcessTables(Head(pages).tables)
         \o (IF Head(pages).text # <<>> THEN PDFParser_parse_text(Head(pages).text)
             ELSE <<>>)
         \o ParsePages(Tail(pages))

\* parse_file: a document that cannot be opened raises; otherwise the rows.
PDFParser_parse_file(content) ==
    IF content.kind # "pdf" THEN [exc |-> "PDFParseError"]
    ELSE [exc |-> "", data |-> ParsePages(content.pages)]

----------------------------------------------------------------------------
(* services/file_validator.py: FileValidator                               *)
(* A file on disk is [size, ext, header, mime, dangerous_path, readable,   *)
(* executable]: header is its first 8 bytes, mime what python-magic        *)
(* reports for it.                                                         *)

MIN_FILE_SIZE == 100
MAX_FILE_SIZE == 10 * 1024 * 1024

SUPPORTED_TYPES ==
    << [type |-> "excel",
        extensions |-> {<<".", "x", "l", "s", "x">>, <<".", "x", "l", "s">>},
        mime_types |-> {"application/vnd.openxmlformats-officedocument.spreadsheetml.sheet",
                        "application/vnd.ms-excel"},
        magic_numbers |-> << <<80, 75, 3, 4>>,
                             <<208, 207, 17, 224, 161, 177, 26, 225>> >>],
       [type |-> "pdf",
        extensions |-> {<<".", "p", "d", "f">>},
        mime_types |-> {"application/pdf"},
        magic_numbers |-> << <<37, 80, 68, 70>> >>] >>

TypeConfig(file_type) ==
    SUPPORTED_TYPES[CHOOSE i \in 1..Len(SUPPORTED_TYPES) : SUPPORTED_TYPES[i].type = file_type]

\* the file type, or "" for None
_detect_type_by_extension(extension) ==
    LET hits == {i \in 1..Len(SUPPORTED_TYPES) : extension \in SUPPORTED_TYPES[i].extensions}
    IN  IF hits = {} THEN ""
        ELSE SUPPORTED_TYPES[CHOOSE i \in hits : \A j \in hits : i <= j].type

\* variant: only the first two bytes of a magic number are compared
_validate_magic_number_two_bytes(f, expected_type) ==
    LET header == SubSeq(f.header, 1, IF Len(f.header) < 8 THEN Len(f.header) ELSE 8)
        magic_numbers == TypeConfig(expected_type).magic_numbers
    IN  \E i \in 1..Len(magic_numbers) :
            StartsWithAt(header, 1, SubSeq(magic_numbers[i], 1, 2))

_validate_magic_number(f, expected_type) ==
    LET header == SubSeq(f.header, 1, IF Len(f.header) < 8 THEN Len(f.header) ELSE 8)
        magic_numbers == TypeConfig(expected_type).magic_numbers
    IN  \E i \in 1..Len(magic_numbers) : StartsWithAt(header, 1, magic_numbers[i])

_validate_mime_type(mime_type, expected_type) ==
    mime_type \in TypeConfig(expected_type).mime_types

_security_check(f) == ~f.dangerous_path /\ f.readable /\ ~f.executable

\* what magic.from_file reports when it raises instead
MimeError == "magic.from_file raised"

\* variant: validate_file without the two size checks
validate_file_any_size(f, has_magic) ==
    LET detected_type == _detect_type_by_extension(Lower(f.ext))
        bad(msg) == [is_valid |-> FALSE, file_type |-> "", error |-> msg]
    IN  IF detected_type = "" THEN bad("unsupported extension")
        ELSE IF ~_validate_magic_number(f, detected_type)
             THEN bad("content does not match extension")
        ELSE IF has_magic /\ f.mime # MimeError
                          /\ ~_validate_mime_type(f.mime, detected_type)
             THEN bad("MIME type mismatch")
        ELSE IF ~_security_check(f) THEN bad("security check failed")
        ELSE [is_valid |-> TRUE, file_type |-> detected_type, error |-> ""]

\* (is_valid, file_type, error_message); has_magic is HAS_MAGIC.  An
\* exception of magic.from_file skips the MIME check.
validate_file(f, has_magic) ==
    LET detected_type == _detect_type_by_extension(Lower(f.ext))
        bad(msg) == [is_valid |-> FALSE, file_type |-> "", error |-> msg]
    IN  IF f.size < MIN_FILE_SIZE THEN bad("file too small")
        ELSE IF f.size > MAX_FILE_SIZE THEN bad("file too large")
        ELSE IF detected_type = "" THEN bad("unsupported extension")
        ELSE IF ~_validate_magic_number(f, detected_type)
             THEN bad("content does not match extension")
        ELSE IF has_magic /\ f.mime # MimeError
                          /\ ~_validate_mime_type(f.mime, detected_type)
             THEN bad("MIME type mismatch")
        ELSE IF ~_security_check(f) THEN bad("security check failed")
        ELSE [is_valid |-> TRUE, file_type |-> detected_type, error |-> ""]

----------------------------------------------------------------------------
(* routers/files.py *)

\* os.path.splitext(filename)[1]: from the last dot, unless the name has
\* no dot after its leading dots
Splitext(filename) ==
    LET dots == {i \in 1..Len(filename) :
                    /\ filename[i] = "."
                    /\ \E j \in 1..(i - 1) : filename[j] # "."}
        last == CHOOSE i \in dots : \A j \in dots : j <= i
    IN  IF dots = {} THEN <<>> ELSE SubSeq(filename, last, Len(filename))

supported_extensions == {<<".", "x", "l", "s", "x">>, <<".", "x", "l", "s">>, <<".", "p", "d", "f">>}

\* the NamedTemporaryFile after tmp.write(content): suffix is the lowered
\* extension, created with mode 0600 under the temp directory
TempFile(up) ==
    [size |-> up.size, ext |-> Lower(Splitext(up.filename)), header |-> up.header,
     mime |-> up.mime, dangerous_path |-> FALSE, readable |-> TRUE,
     executable |-> FALSE]

\* _parse_file(file_path, file_type); has_pdfplumber is HAS_PDFPLUMBER
_parse_file(content, file_type, has_pdfplumber) ==
    IF file_type = "excel" THEN ExcelParser_parse_file(content)
    ELSE IF file_type = "pdf"
         THEN IF ~has_pdfplumber THEN [exc |-> "PDFParseError"]
              ELSE PDFParser_parse_file(content)
    ELSE [exc |-> "ValueError"]

\* PlanRepository.create: add, commit, refresh.  The commit fails with
\* IntegrityError when a column declared nullable=False (name, calories) is
\* None.
PlanRepository_create_commits(plan) == plan.name # None /\ plan.calories # None

\* one loop of _save_plan_items: the Plan rows created (each is committed by
\* PlanRepository.create) until an entry's date fails strptime or a commit
\* fails
RECURSIVE SaveItems(_, _, _)
SaveItems(items, type, created) ==
    IF items = <<>> THEN [exc |-> "", plans |-> created]
    ELSE LET it == Head(items)
             g == MatchAt(it.date.s, 1, date_patterns[1]).g
             plan_date == IF it.date.t = "str"
                          THEN DateObj(DigitsToNat(g[1]), DigitsToNat(g[2]),
                                       DigitsToNat(g[3]))
                          ELSE it.date
             plan == IF type = "meal"
                     THEN [date |-> plan_date, type |-> "meal", name |-> it.food,
                           calories |-> it.calories, duration |-> None]
                     ELSE [date |-> plan_date, type |-> "exercise", name |-> it.name,
                           calories |-> it.calories_burned, duration |-> it.duration]
         IN  IF ~Truthy(it.date) THEN SaveItems(Tail(items), type, created)
             ELSE IF it.date.t = "str" /\ ~StrptimeOk(it.date.s, "-", TRUE)
             THEN [exc |-> "ValueError", plans |-> created]
             ELSE IF ~PlanRepository_create_commits(plan)
             THEN [exc |-> "IntegrityError", plans |-> created]
             ELSE SaveItems(Tail(items), type, Append(created, plan))

_save_plan_items(items) ==
    LET meals == SaveItems(items.meals, "meal", <<>>)
        exercises == SaveItems(items.exercises, "exercise", <<>>)
    IN  IF meals.exc # "" THEN meals
        ELSE [exc |-> exercises.exc, plans |-> meals.plans \o exercises.plans]

HTTPException(status, code) == [status |-> status, code |-> code]

\* raise inside the try block: the response is fixed, the finally clause runs
Raise(status, code) ==
    /\ response' = HTTPException(status, code)
    /\ pc' = "finally"

\* lines 45-63: file name and extension
BasicValidation ==
    /\ pc = "start"
    /\ IF upload.filename = <<>>
          \/ Lower(Splitext(upload.filename)) \notin supported_extensions
       THEN Raise(400, "FILE_VALIDATION_ERROR")
       ELSE pc' = "create_temp" /\ UNCHANGED response
    /\ UNCHANGED <<upload, temp_file_path, tmp_on_disk, file_info, parsed_data, dtype,
                   validation_result, plan_items, db, stages, text, raw, normalized, calls,
                   self_worksheet, self_column_mapping, file_path, sniff_result,
                   cell_field, parser, instanceVars, textVars>>

\* lines 66-69: NamedTemporaryFile(delete=False) creates the file
CreateTemp ==
    /\ pc = "create_temp"
    /\ tmp_on_disk' = TRUE
    /\ pc' = "read"
    /\ UNCHANGED <<upload, temp_file_path, file_info, parsed_data, dtype,
                   validation_result, plan_items, db, response, stages, text, raw,
                   normalized, calls,
                   self_worksheet, self_column_mapping, file_path, sniff_result,
                   cell_field, parser, instanceVars, textVars>>

\* lines 70-83: read the upload, check its size, write it, keep the path
ReadUpload ==
    /\ pc = "read"
    /\ IF upload.read_fails
       THEN Raise(500, "INTERNAL_SERVER_ERROR") /\ UNCHANGED temp_file_path
       ELSE IF upload.size > 10 * 1024 * 1024
       THEN Raise(400, "FILE_VALIDATION_ERROR") /\ UNCHANGED temp_file_path
       ELSE /\ temp_file_path' = Str(<<"/", "t", "m", "p", "/", "t", "m", "p", "f", "i", "l", "e">> \o Lower(Splitext(upload.filename)))
            /\ pc' = "sniff"
            /\ UNCHANGED response
    /\ UNCHANGED <<upload, tmp_on_disk, file_info, parsed_data, dtype,
                   validation_result, plan_items, db, stages, text, raw, normalized, calls,
                   self_worksheet, self_column_mapping, file_path, sniff_result,
                   cell_field, parser, instanceVars, textVars>>

\* lines 88-98: what follows validate_file's verdict v
Sniffed(v) ==
    IF ~v.is_valid
    THEN Raise(400, "FILE_VALIDATION_ERROR") /\ UNCHANGED file_info
    ELSE /\ file_info' = [file_type |-> v.file_type]
         /\ pc' = "parse"
         /\ UNCHANGED response

\* lines 85-101: validate_file
Sniff ==
    /\ pc = "sniff"
    /\ stages' = Append(stages, "sniff")
    /\ Sniffed(validate_file(TempFile(upload), upload.has_magic))
    /\ UNCHANGED <<upload, temp_file_path, tmp_on_disk, parsed_data, dtype,
                   validation_result, plan_items, db, text, raw, normalized, calls,
                   self_worksheet, self_column_mapping, file_path, sniff_result,
                   cell_field, parser, instanceVars, textVars>>

\* variant: a parse error is swallowed and the pipeline goes on with no rows
Parsed_swallowing_errors(p) ==
    /\ parsed_data' = IF p.exc = "" THEN p.data ELSE <<>>
    /\ pc' = "validate"
    /\ UNCHANGED response

\* lines 104-111, 154-159: what follows _parse_file's outcome p
Parsed(p) ==
    IF p.exc \in {"ExcelParseError", "PDFParseError"}
    THEN Raise(400, "FILE_PARSE_ERROR") /\ UNCHANGED parsed_data
    ELSE IF p.exc # ""
    THEN Raise(500, "INTERNAL_SERVER_ERROR") /\ UNCHANGED parsed_data
    ELSE /\ parsed_data' = p.data
         /\ pc' = "validate"
         /\ UNCHANGED response

\* lines 103-111: _parse_file
Parse ==
    /\ pc = "parse"
    /\ stages' = Append(stages, "parse")
    /\ Parsed(_parse_file(upload.content, file_info.file_type, upload.has_pdfplumber))
    /\ UNCHANGED <<upload, temp_file_path, tmp_on_disk, file_info, dtype,
                   validation_result, plan_items, db, text, raw, normalized, calls,
                   self_worksheet, self_column_mapping, file_path, sniff_result,
                   cell_field, parser, instanceVars, textVars>>

\* lines 113-123: validate_parsed_data(parsed_data), data_type 'general'
Validate ==
    /\ pc = "validate"
    /\ stages' = Append(stages, "validate")
    /\ validation_result' = validate_parsed_data(parsed_data, dtype)
    /\ IF ~is_valid(validation_result')
       THEN Raise(400, "DATA_VALIDATION_ERROR")
       ELSE pc' = "convert" /\ UNCHANGED response
    /\ UNCHANGED <<upload, temp_file_path, tmp_on_disk, file_info, parsed_data, dtype,
                   plan_items, db, text, raw, normalized, calls,
                   self_worksheet, self_column_mapping, file_path, sniff_result,
                   cell_field, parser, instanceVars, textVars>>

\* lines 126, 154-159: what follows convert_to_plan_items' outcome c
Converted(c) ==
    IF c.exc # ""
    THEN Raise(500, "INTERNAL_SERVER_ERROR") /\ UNCHANGED plan_items
    ELSE /\ plan_items' = [meals |-> c.meals, exercises |-> c.exercises]
         /\ pc' = "save"
         /\ UNCHANGED response

\* lines 125-126: convert_to_plan_items
Convert ==
    /\ pc = "convert"
    /\ stages' = Append(stages, "convert")
    /\ Converted(convert_to_plan_items(parsed_data))
    /\ UNCHANGED <<upload, temp_file_path, tmp_on_disk, file_info, parsed_data, dtype,
                   validation_result, db, text, raw, normalized, calls,
                   self_worksheet, self_column_mapping, file_path, sniff_result,
                   cell_field, parser, instanceVars, textVars>>

\* lines 130-150, 154-159: what follows _save_plan_items' outcome s
Saved(s) ==
    /\ db' = db \o s.plans
    /\ IF s.exc # ""
       THEN Raise(500, "INTERNAL_SERVER_ERROR")
       ELSE /\ response' = [status |-> 200, code |-> "success"]
            /\ pc' = "finally"

\* lines 128-150: _save_plan_items, then the success response
Save ==
    /\ pc = "save"
    /\ stages' = Append(stages, "save")
    /\ Saved(_save_plan_items(plan_items))
    /\ UNCHANGED <<upload, temp_file_path, tmp_on_disk, file_info, parsed_data, dtype,
                   validation_result, plan_items, text, raw, normalized, calls,
                   self_worksheet, self_column_mapping, file_path, sniff_result,
                   cell_field, parser, instanceVars, textVars>>

\* lines 160-166: the finally clause
Finally ==
    /\ pc = "finally"
    /\ tmp_on_disk' = IF Truthy(temp_file_path) /\ tmp_on_disk THEN FALSE ELSE tmp_on_disk
    /\ pc' = "done"
    /\ UNCHANGED <<upload, temp_file_path, file_info, parsed_data, dtype,
                   validation_result, plan_items, db, response, stages, text, raw,
                   normalized, calls,
                   self_worksheet, self_column_mapping, file_path, sniff_result,
                   cell_field, parser, instanceVars, textVars>>

----------------------------------------------------------------------------
(* Inputs *)

MaxSheetRows == 2
MaxLines == 3
MaxRows == 2
MaxCalls == 3
MaxLeadingRows == 5
MaxHeaderRows == 2
MaxConvertRows == 2
MaxFiles == 2
MaxTextLines == 3

SeqsUpTo(S, n) == UNION {[1..k -> S] : k \in 0..n}

\* header rows of a worksheet
MealHeader == <<Str(<<"u65e5", "u671f">>), Str(<<"u98df", "u7269">>), Str(<<"u70ed", "u91cf">>)>>
TypedHeader == <<Str(<<"u65e5", "u671f">>), Str(<<"u7c7b", "u578b">>), Str(<<"u540d", "u79f0">>)>>

\* data rows of a worksheet (three cells)
SheetRowPool ==
    { <<Str(<<"2", "0", "2", "4", "-", "0", "1", "-", "0", "1">>), Str(<<"u9e21", "u80f8", "u8089">>), Str(<<"2", "0", "0">>)>>,
      <<Str(<<"2", "0", "2", "4", "-", "0", "1", "-", "0", "2">>), Str(<<>>), Str(<<"a", "b", "c">>)>>,
      <<None, None, None>>,
      <<DateObj(2024, 1, 5), Str(<<"m", "e", "a", "l">>), Str(<<"r", "i", "c", "e">>)>>,
      <<Str(<<"2", "0", "2", "4", "-", "0", "1", "-", "0", "6">>), None, Str(<<"r", "i", "c", "e">>)>>,
      <<Str(<<"2", "0", "2", "4", "-", "0", "1", "-", "0", "7">>), Str(<<"r", "i", "c", "e">>), PyInt(15000)>> }

Sheets ==
    {<<h>> \o rows : h \in {MealHeader, TypedHeader},
                     rows \in SeqsUpTo(SheetRowPool, MaxSheetRows)}

\* lines of a PDF page's text
LinePool ==
    { <<"2", "0", "2", "4", "-", "0", "3", "-", "0", "1">>, <<"u65e9", "u9910", ":", " ", "u71d5", "u9ea6", " ", "3", "0", "0", "u5361">>, <<"u8dd1", "u6b65", " ", "3", "0", "u5206", "u949f">>, <<>>, <<"u5348", "u9910", " ", "u7c73", "u996d">> }

Texts == SeqsUpTo(LinePool, MaxLines)

\* a table as pdfplumber extracts it
FoodTable ==
    << <<Str(<<"D", "a", "t", "e">>), Str(<<"u98df", "u7269">>), Str(<<"k", "c", "a", "l">>)>>,
       <<Str(<<"2", "0", "2", "4", "/", "1", "/", "2">>), Str(<<"a", " ", " ", "b", " ">>), Str(<<"1", "2", ".", "5", "0", " ", "k", "c", "a", "l">>)>>,
       <<None, None, Str(<<>>)>> >>

XlsxMagic == <<80, 75, 3, 4, 20, 0, 6, 0>>
PdfMagic == <<37, 80, 68, 70, 45, 49, 46, 52>>
XlsxMime == "application/vnd.openxmlformats-officedocument.spreadsheetml.sheet"
PdfMime == "application/pdf"

\* An upload: the UploadFile (filename, size and first bytes of its content,
\* whether read() fails), what python-magic reports for the content, what
\* opening it as a workbook or a PDF gives, and the optional modules of the
\* installation (HAS_MAGIC, HAS_PDFPLUMBER).
XlsxUpload(content) ==
    [filename |-> <<"p", "l", "a", "n", ".", "x", "l", "s", "x">>, size |-> 5000, read_fails |-> FALSE,
     header |-> XlsxMagic, mime |-> XlsxMime, has_magic |-> TRUE,
     has_pdfplumber |-> TRUE, content |-> content]

PdfUpload(content) ==
    [filename |-> <<"p", "l", "a", "n", ".", "p", "d", "f">>, size |-> 5000, read_fails |-> FALSE,
     header |-> PdfMagic, mime |-> PdfMime, has_magic |-> TRUE,
     has_pdfplumber |-> TRUE, content |-> content]

Workbook(sheet) == [kind |-> "workbook", sheet |-> sheet]
PdfDocument(pages) == [kind |-> "pdf", pages |-> pages]
Corrupt == [kind |-> "corrupt"]

BaseXlsx == XlsxUpload(Workbook(<<MealHeader, <<Str(<<"2", "0", "2", "4", "-", "0", "1", "-", "0", "1">>), Str(<<"u9e21", "u80f8", "u8089">>), Str(<<"2", "0", "0">>)>> >>))
BasePdf == PdfUpload(PdfDocument(<<[tables |-> <<>>, text |-> <<<<"2", "0", "2", "4", "-", "0", "3", "-", "0", "1">>, <<"u5348", "u9910", " ", "u7c73", "u996d">>>>]>>))

Uploads ==
    {XlsxUpload(Workbook(s)) : s \in Sheets}
    \cup {PdfUpload(PdfDocument(<<[tables |-> <<>>, text |-> t]>>)) : t \in Texts}
    \cup {PdfUpload(PdfDocument(<<[tables |-> <<FoodTable>>, text |-> t]>>)) :
             t \in {<<>>, <<<<"2", "0", "2", "4", "-", "0", "3", "-", "0", "1">>, <<"u8dd1", "u6b65", " ", "3", "0", "u5206", "u949f">>>>}}
    \cup {[b EXCEPT !.filename = f] :
             b \in {BaseXlsx}, f \in {<<>>, <<"p", "l", "a", "n">>, <<"p", "l", "a", "n", ".", "t", "x", "t">>, <<"P", "L", "A", "N", ".", "X", "L", "S", "X">>, <<"p", "l", "a", "n", ".", "x", "l", "s">>}}
    \cup {[b EXCEPT !.size = n] :
             b \in {BaseXlsx, BasePdf},
             n \in {0, 9, 99, 100, 10 * 1024 * 1024, 10 * 1024 * 1024 + 1}}
    \cup {[b EXCEPT !.read_fails = TRUE] : b \in {BaseXlsx, BasePdf}}
    \cup {[BaseXlsx EXCEPT !.header = PdfMagic], [BasePdf EXCEPT !.header = XlsxMagic]}
    \cup {[BaseXlsx EXCEPT !.mime = PdfMime, !.has_magic = m] : m \in BOOLEAN}
    \cup {[BasePdf EXCEPT !.has_pdfplumber = FALSE]}
    \cup {XlsxUpload(Corrupt), PdfUpload(Corrupt)}

\* values of a row's date
DateValues ==
    { None, Str(<<>>), Str(<<"2", "0", "2", "4", "-", "0", "1", "-", "1", "5">>), Str(<<"2", "0", "2", "4", "-", "1", "3", "-", "0", "1">>), Str(<<"1", "5", "/", "0", "1", "/", "2", "0", "2", "4">>),
      Str(<<"t", "o", "m", "o", "r", "r", "o", "w">>), DateObj(2024, 1, 15), PyInt(20240115) }

\* values of a row's calories
CaloriesValues ==
    { None, PyInt(0), PyInt(500), PyInt(10000), PyInt(10001), PyInt(15000),
      PyInt(-1), Float(100005, 1), Float(5, 1), Str(<<"a", "b", "c">>), Str(<<"2", "0", "0">>), Str(<<>>) }

\* values of a row's duration
DurationValues ==
    { None, PyInt(0), PyInt(30), PyInt(1440), PyInt(1441), PyInt(-5),
      Float(14405, 1), Str(<<"a", "b", "c">>) }

ValidDate == Str(<<"2", "0", "2", "4", "-", "0", "1", "-", "1", "5">>)
LongText == [i \in 1..501 |-> "a"]

\* rows handed to the validator
RowPool ==
    {EmptyDict}
    \cup {[date |-> d] : d \in DateValues}
    \cup {[date |-> ValidDate, calories |-> c] : c \in CaloriesValues}
    \cup {[date |-> ValidDate, duration |-> d] : d \in DurationValues}
    \cup {[calories |-> c] : c \in {PyInt(500), PyInt(15000), Str(<<"a", "b", "c">>)}}
    \cup {[date |-> ValidDate, meal_time |-> Str(<<"u65e9", "u9910">>)],
          [date |-> ValidDate, meal_time |-> Str(<<"u65e9", "u9910">>), food |-> None,
           calories |-> None],
          [date |-> ValidDate, meal_time |-> Str(<<"u65e9", "u9910">>), food |-> Str(<<>>),
           calories |-> PyInt(0)],
          [date |-> ValidDate, meal_time |-> Str(<<"u65e9", "u9910">>), food |-> Str(<<"u71d5", "u9ea6">>),
           calories |-> PyInt(300)],
          [date |-> Str(<<"t", "o", "m", "o", "r", "r", "o", "w">>), meal_time |-> Str(<<"u65e9", "u9910">>)],
          [date |-> ValidDate, meal_time |-> Str(<<"u65e9", "u9910">>), calories |-> Str(<<>>)],
          [date |-> ValidDate, name |-> Str(<<"u8dd1", "u6b65">>), duration |-> PyInt(30)],
          [date |-> ValidDate, food |-> Str(LongText)],
          [date |-> ValidDate, food |-> PyInt(5)],
          [date |-> Str(<<"2", "0", "2", "4", "-", "1", "3", "-", "0", "1">>), calories |-> PyInt(15000),
           duration |-> PyInt(-5)]}

Batches == SeqsUpTo(RowPool, MaxRows)

DataTypes == {"meal", "exercise", "general"}

\* date strings: three parts in year-first and year-last order with each
\* separator, and strings with text around a date
DateParts == {<<"1">>, <<"0", "2">>, <<"1", "2">>, <<"1", "3">>, <<"2", "5">>, <<"3", "1">>}
DateYears == {<<"2", "0", "2", "4">>, <<"2", "0", "2", "3">>}

DateStrings ==
    {y \o s \o a \o s \o b : y \in DateYears, s \in {<<"-">>, <<"/">>}, a \in DateParts,
                            b \in DateParts}
    \cup {a \o s \o b \o s \o y : y \in DateYears, s \in {<<"-">>, <<"/">>}, a \in DateParts,
                                 b \in DateParts}
    \cup {y \o <<"u5e74">> \o a \o <<"u6708">> \o b \o <<"u65e5">> : y \in DateYears, a \in DateParts,
                                             b \in DateParts}
    \cup {<<"2", "0", "2", "4", "/", "0", "1", "-", "0", "2">>, <<"x", " ", "2", "0", "2", "4", "-", "0", "1", "-", "0", "1">>, <<"2", "0", "2", "4", "-", "0", "1", "-", "0", "1", " ", "0", "8", ":", "0", "0">>, <<"2", "0", "2", "4", "0", "1", "0", "1">>, <<"t", "o", "m", "o", "r", "r", "o", "w">>,
          <<"2", "0", "2", "4", "u5e74", "1", "2", "u6708", "2">>, <<"2", "4", "-", "0", "1", "-", "0", "2">>, <<"2", "0", "2", "4", "-", "2", "-", "3", "0">>, <<"2", "0", "2", "3", "-", "0", "2", "-", "2", "9">>, <<"2", "0", "2", "4", "-", "0", "2", "-", "2", "9">>}

----------------------------------------------------------------------------
(* Specifications *)

\* parser, sniffer and normalizer state a specification does not use
IdleText ==
    /\ locals = None
    /\ line_no = 0

IdleInstance ==
    /\ self_workbook = None
    /\ open_workbooks = {}
    /\ files = <<>>
    /\ outcome = None

IdleParsers ==
    /\ self_worksheet = None
    /\ self_column_mapping = None
    /\ file_path = None
    /\ sniff_result = None
    /\ cell_field = ""
    /\ parser = ""
    /\ IdleInstance
    /\ IdleText

\* what a specification does not use
Idle ==
    /\ temp_file_path = None
    /\ tmp_on_disk = FALSE
    /\ file_info = None
    /\ validation_result = None
    /\ plan_items = None
    /\ db = <<>>
    /\ response = None
    /\ stages = <<>>
    /\ text = <<>>
    /\ raw = None
    /\ normalized = None
    /\ calls = [errors |-> 0, warnings |-> 0]

\* Spec: one request to POST /upload
Init ==
    /\ pc = "start"
    /\ upload \in Uploads
    /\ parsed_data = <<>>
    /\ dtype = "general"
    /\ Idle
    /\ IdleParsers

Next ==
    \/ BasicValidation
    \/ CreateTemp
    \/ ReadUpload
    \/ Sniff
    \/ Parse
    \/ Validate
    \/ Convert
    \/ Save
    \/ Finally

Spec == Init /\ [][Next]_vars

\* SpecValidate: one call of DataValidator.validate_parsed_data
InitValidate ==
    /\ pc = "validate"
    /\ upload = None
    /\ parsed_data \in Batches
    /\ dtype \in DataTypes
    /\ Idle
    /\ IdleParsers

ValidateParsedData ==
    /\ pc = "validate"
    /\ validation_result' = validate_parsed_data(parsed_data, dtype)
    /\ pc' = "validated"
    /\ UNCHANGED <<upload, temp_file_path, tmp_on_disk, file_info, parsed_data, dtype,
                   plan_items, db, response, stages, text, raw, normalized, calls,
                   self_worksheet, self_column_mapping, file_path, sniff_result,
                   cell_field, parser, instanceVars, textVars>>

NextValidate == ValidateParsedData

SpecValidate == InitValidate /\ [][NextValidate]_vars

\* SpecResult: calls on one ValidationResult
ErrorCalls ==
    {<<t, f, i>> : t \in {"invalid_value", "missing_required_field"},
                   f \in {"date", "calories"}, i \in {None, PyInt(1)}}

WarningCalls ==
    {[text |-> "row lacks recommended fields", row_index |-> 1, fields |-> <<"food">>],
     [text |-> "validated rows", count |-> 1]}

InitResult ==
    /\ pc = "result"
    /\ upload = None
    /\ parsed_data = <<>>
    /\ dtype = "general"
    /\ temp_file_path = None
    /\ tmp_on_disk = FALSE
    /\ file_info = None
    /\ validation_result = NewResult
    /\ plan_items = None
    /\ db = <<>>
    /\ response = None
    /\ stages = <<>>
    /\ text = <<>>
    /\ raw = None
    /\ normalized = None
    /\ calls = [errors |-> 0, warnings |-> 0]
    /\ IdleParsers

AddError ==
    /\ pc = "result"
    /\ calls.errors + calls.warnings < MaxCalls
    /\ \E c \in ErrorCalls :
          validation_result' =
              add_error(validation_result, c[1], c[2],
                        [text |-> "message", field |-> c[2]], c[3], None)
    /\ calls' = [calls EXCEPT !.errors = @ + 1]
    /\ UNCHANGED <<pc, upload, temp_file_path, tmp_on_disk, file_info, parsed_data,
                   dtype, plan_items, db, response, stages, text, raw, normalized,
                   self_worksheet, self_column_mapping, file_path, sniff_result,
                   cell_field, parser, instanceVars, textVars>>

AddWarning ==
    /\ pc = "result"
    /\ calls.errors + calls.warnings < MaxCalls
    /\ \E m \in WarningCalls : validation_result' = add_warning(validation_result, m)
    /\ calls' = [calls EXCEPT !.warnings = @ + 1]
    /\ UNCHANGED <<pc, upload, temp_file_path, tmp_on_disk, file_info, parsed_data,
                   dtype, plan_items, db, response, stages, text, raw, normalized,
                   self_worksheet, self_column_mapping, file_path, sniff_result,
                   cell_field, parser, instanceVars, textVars>>

NextResult == AddError \/ AddWarning

SpecResult == InitResult /\ [][NextResult]_vars

\* SpecDate: one date string given to the validator and to the normalizer
InitDate ==
    /\ pc = "date_input"
    /\ upload = None
    /\ parsed_data = <<>>
    /\ dtype = "general"
    /\ temp_file_path = None
    /\ tmp_on_disk = FALSE
    /\ file_info = None
    /\ validation_result = None
    /\ plan_items = None
    /\ db = <<>>
    /\ response = None
    /\ stages = <<>>
    /\ text = <<>>
    /\ raw \in {Str(s) : s \in DateStrings}
    /\ normalized = None
    /\ calls = [errors |-> 0, warnings |-> 0]
    /\ IdleParsers

CheckDate ==
    /\ pc = "date_input"
    /\ parsed_data' = <<[date |-> raw]>>
    /\ validation_result' = validate_parsed_data(parsed_data', dtype)
    /\ normalized' = ExcelParser_parse_date(raw)
    /\ pc' = "date_checked"
    /\ UNCHANGED <<upload, temp_file_path, tmp_on_disk, file_info, dtype, plan_items,
                   db, response, stages, text, raw, calls,
                   self_worksheet, self_column_mapping, file_path, sniff_result,
                   cell_field, parser, instanceVars, textVars>>

NextDate == CheckDate

SpecDate == InitDate /\ [][NextDate]_vars


\* SpecSniff: one call of FileValidator.validate_file on a file on disk
OleMagic == <<208, 207, 17, 224, 161, 177, 26, 225>>

SniffFiles ==
    [size : {9, 99, 100, 5000, 10 * 1024 * 1024, 10 * 1024 * 1024 + 1},
     ext : {<<".", "x", "l", "s", "x">>, <<".", "X", "L", "S">>, <<".", "p", "d", "f">>, <<".", "t", "x", "t">>},
     header : {XlsxMagic, OleMagic, PdfMagic, <<80, 75, 5, 6, 0, 0, 0, 0>>,
               <<80, 75, 3>>, <<>>},
     mime : {XlsxMime, "application/vnd.ms-excel", PdfMime, "application/zip",
             MimeError},
     dangerous_path : {FALSE},
     readable : BOOLEAN,
     executable : BOOLEAN]

InitSniff ==
    /\ pc = "sniff_input"
    /\ upload \in [has_magic : BOOLEAN]
    /\ file_path \in SniffFiles
    /\ parsed_data = <<>>
    /\ dtype = "general"
    /\ Idle
    /\ self_worksheet = None
    /\ self_column_mapping = None
    /\ sniff_result = None
    /\ cell_field = ""
    /\ parser = ""
    /\ IdleInstance
    /\ IdleText

ValidateFile ==
    /\ pc = "sniff_input"
    /\ sniff_result' = validate_file(file_path, upload.has_magic)
    /\ pc' = "sniffed"
    /\ UNCHANGED <<upload, temp_file_path, tmp_on_disk, file_info, parsed_data, dtype,
                   validation_result, plan_items, db, response, stages, text, raw,
                   normalized, calls, self_worksheet, self_column_mapping, file_path,
                   cell_field, parser, instanceVars, textVars>>

NextSniff == ValidateFile

SpecSniff == InitSniff /\ [][NextSniff]_vars

\* SpecColumns: one run of ExcelParser._identify_columns on a worksheet of
\* five columns: data rows, then rows of any kind
DataRow == <<Str(<<"2", "0", "2", "4", "-", "0", "1", "-", "0", "1">>), Str(<<"r", "i", "c", "e">>), PyInt(200), None, None>>

HeaderRows ==
    { <<Str(<<"u65e5", "u671f">>), Str(<<"u98df", "u7269">>), Str(<<"u70ed", "u91cf">>), None, None>>,
      <<Str(<<"D", "a", "t", "e">>), Str(<<"u98df", "u7269">>), Str(<<"F", "o", "o", "d">>), None, None>>,
      <<Str(<<"d", "a", "t", "e">>), Str(<<"f", "o", "o", "d">>), Str(<<"a">>), Str(<<"b">>), Str(<<"c">>)>>,
      <<Str(<<"d", "a", "t", "e">>), Str(<<"a">>), Str(<<"b">>), Str(<<"c">>), Str(<<"d">>)>>,
      <<Str(<<"N", "o", "t", "e", "s">>), Str(<<"a">>), Str(<<"b">>), None, None>>,
      <<None, None, None, None, None>>,
      DataRow }

HeaderSheets ==
    {lead \o rest : lead \in SeqsUpTo({DataRow}, MaxLeadingRows),
                    rest \in SeqsUpTo(HeaderRows, MaxHeaderRows)}
        \ {<<>>}

InitColumns ==
    /\ pc = "opened"
    /\ upload = None
    /\ parsed_data = <<>>
    /\ dtype = "general"
    /\ Idle
    /\ self_worksheet \in HeaderSheets
    /\ self_column_mapping = EmptyDict
    /\ file_path = None
    /\ sniff_result = None
    /\ cell_field = ""
    /\ parser = ""
    /\ IdleInstance
    /\ IdleText

IdentifyColumns ==
    /\ pc = "opened"
    /\ self_column_mapping' = ExcelParser_identify_columns(self_worksheet)
    /\ pc' = "identified"
    /\ UNCHANGED <<upload, temp_file_path, tmp_on_disk, file_info, parsed_data, dtype,
                   validation_result, plan_items, db, response, stages, text, raw,
                   normalized, calls, self_worksheet, file_path, sniff_result,
                   cell_field, parser, instanceVars, textVars>>

NextColumns == IdentifyColumns

SpecColumns == InitColumns /\ [][NextColumns]_vars

\* SpecNormalize: the value of one cell of a field is normalized by a
\* parser's _extract_row / _extract_table_row, and the result is normalized
\* once more
CellFields == {"date", "calories", "duration", "food"}

CellStrings ==
    { <<>>, <<"0">>, <<" ", " ">>, <<" ", "x", " ">>, <<"-", "5">>, <<"a", "b", "c">>, <<"2", "0", "0">>, <<"1", "2", ".", "5", "0">>, <<"2", "0", "0", " ", "k", "c", "a", "l">>,
      <<"2", "0", "2", "4", "-", "1", "2", "-", "0", "2">>, <<"1", "2", "/", "0", "2", "/", "2", "0", "2", "4">>, <<"2", "0", "2", "4", "u5e74", "1", "2", "u6708", "2", "u65e5">>, <<"2", "0", "2", "4", "/", "2", "/", "3", "0">>, <<"1", "3", "/", "0", "2", "/", "2", "0", "2", "4">>,
      <<"2", "0", "2", "4", "-", "1", "3", "-", "1", "/", "0", "2", "/", "2", "0", "2", "4">>, <<"x", " ", "2", "0", "2", "4", "-", "0", "1", "-", "0", "5", " ", "y">>, <<"2", "0", "2", "3", "u5e74", "2", "u6708", "2", "9", "u65e5">> }

\* openpyxl gives text, numbers, dates or None; pdfplumber text or None
CellValues(p) ==
    {None} \cup {Str(s) : s \in CellStrings}
    \cup (IF p = "excel"
          THEN {PyInt(0), Float(0, 0), PyInt(200), PyInt(-5), Float(-25, 1),
                Float(1250, 2), DateObj(2024, 12, 2)}
          ELSE {})

NormalizerOf(p, field, value) ==
    IF p = "excel" THEN ExcelParser_extract_cell(field, value)
    ELSE PDFParser_extract_cell(field, value)

InitNormalize ==
    /\ pc = "cell"
    /\ upload = None
    /\ parsed_data = <<>>
    /\ dtype = "general"
    /\ temp_file_path = None
    /\ tmp_on_disk = FALSE
    /\ file_info = None
    /\ validation_result = None
    /\ plan_items = None
    /\ db = <<>>
    /\ response = None
    /\ stages = <<>>
    /\ text = <<>>
    /\ parser \in {"excel", "pdf"}
    /\ IdleInstance
    /\ IdleText
    /\ cell_field \in CellFields
    /\ raw \in CellValues(parser)
    /\ normalized = None
    /\ calls = [errors |-> 0, warnings |-> 0]
    /\ self_worksheet = None
    /\ self_column_mapping = None
    /\ file_path = None
    /\ sniff_result = None

NormalizeCell ==
    /\ pc = "cell"
    /\ normalized' = NormalizerOf(parser, cell_field, raw)
    /\ pc' = "normalized"
    /\ UNCHANGED <<upload, temp_file_path, tmp_on_disk, file_info, parsed_data, dtype,
                   validation_result, plan_items, db, response, stages, text, raw,
                   calls, self_worksheet, self_column_mapping, file_path,
                   sniff_result, cell_field, parser, instanceVars, textVars>>

RenormalizeCell ==
    /\ pc = "normalized"
    /\ raw' = normalized
    /\ normalized' = NormalizerOf(parser, cell_field, normalized)
    /\ pc' = "renormalized"
    /\ UNCHANGED <<upload, temp_file_path, tmp_on_disk, file_info, parsed_data, dtype,
                   validation_result, plan_items, db, response, stages, text,
                   calls, self_worksheet, self_column_mapping, file_path,
                   sniff_result, cell_field, parser, instanceVars, textVars>>

NextNormalize == NormalizeCell \/ RenormalizeCell

SpecNormalize == InitNormalize /\ [][NextNormalize]_vars

\* SpecConvert: one call of convert_to_plan_items on rows as the tabular
\* extractor emits them (every mapped field is a key; an empty cell is None)
ConvertRowPool ==
    { [date |-> Str(<<"2", "0", "2", "4", "-", "0", "1", "-", "0", "1">>), food |-> Str(<<"r", "i", "c", "e">>), calories |-> Float(200, 0)],
      [date |-> Str(<<"2", "0", "2", "4", "-", "0", "1", "-", "0", "2">>), food |-> Str(<<"s", "o", "u", "p">>), calories |-> None],
      [date |-> Str(<<"2", "0", "2", "4", "-", "0", "1", "-", "0", "3">>), food |-> Str(<<"e", "g", "g">>)],
      [date |-> Str(<<"2", "0", "2", "4", "-", "0", "1", "-", "0", "4">>), exercise |-> Str(<<"r", "u", "n">>), duration |-> None,
       calories |-> None],
      [date |-> Str(<<"2", "0", "2", "4", "-", "0", "1", "-", "0", "5">>), food |-> Str(<<"t", "e", "a">>), exercise |-> Str(<<"s", "w", "i", "m">>),
       calories |-> Float(50, 0), duration |-> Float(30, 0)],
      [date |-> Str(<<"2", "0", "2", "4", "-", "0", "1", "-", "0", "6">>), food |-> None, exercise |-> None,
       calories |-> Float(100, 0)],
      [date |-> Str(<<"2", "0", "2", "4", "-", "0", "1", "-", "0", "7">>), type |-> Str(<<"m", "e", "a", "l">>), name |-> Str(<<"b", "r", "e", "a", "d">>),
       food |-> Str(<<"j", "a", "m">>), exercise |-> Str(<<"w", "a", "l", "k">>)],
      [date |-> Str(<<"2", "0", "2", "4", "-", "0", "1", "-", "0", "8">>), type |-> Str(<<"u8fd0", "u52a8">>), name |-> Str(<<"y", "o", "g", "a">>),
       duration |-> Float(45, 0)],
      [date |-> Str(<<"2", "0", "2", "4", "-", "0", "1", "-", "0", "9">>), type |-> Str(<<"o", "t", "h", "e", "r">>), name |-> Str(<<"n", "a", "p">>),
       food |-> Str(<<"n", "u", "t">>)],
      [date |-> Str(<<"2", "0", "2", "4", "-", "0", "1", "-", "1", "0">>), type |-> Str(<<"m", "e", "a", "l">>), food |-> Str(<<"f", "i", "g">>)],
      [date |-> Str(<<"2", "0", "2", "4", "-", "0", "1", "-", "1", "1">>), type |-> None, name |-> Str(<<"o", "a", "t">>),
       food |-> Str(<<"p", "i", "e">>)],
      [date |-> Str(<<"2", "0", "2", "4", "-", "0", "1", "-", "1", "2">>), type |-> Str(<<"m", "e", "a", "l">>), name |-> None] }

ConvertBatches == SeqsUpTo(ConvertRowPool, MaxConvertRows)

InitConvert ==
    /\ pc = "convert_input"
    /\ upload = None
    /\ parsed_data \in ConvertBatches
    /\ dtype = "general"
    /\ Idle
    /\ IdleParsers

ConvertToPlanItems ==
    /\ pc = "convert_input"
    /\ plan_items' = convert_to_plan_items(parsed_data)
    /\ pc' = "converted"
    /\ UNCHANGED <<upload, temp_file_path, tmp_on_disk, file_info, parsed_data, dtype,
                   validation_result, db, response, stages, text, raw, normalized,
                   calls, self_worksheet, self_column_mapping, file_path,
                   sniff_result, cell_field, parser, instanceVars, textVars>>

NextConvert == ConvertToPlanItems

SpecConvert == InitConvert /\ [][NextConvert]_vars
----------------------------------------------------------------------------
(* Properties *)

\* the errors of a result that carry row index i
RowErrors(result, i) ==
    SelectSeq(result.errors, LAMBDA e : e.row_index = PyInt(i))

\* the errors of a result for row i with a type and a field
ErrorsOn(result, i, error_type, field) ==
    SelectSeq(RowErrors(result, i),
              LAMBDA e : e.error_type = error_type /\ e.field = field)

C1Upload ==
    XlsxUpload(Workbook(<<MealHeader,
                          <<Str(<<"2", "0", "2", "4", "-", "0", "1", "-", "0", "1">>), Str(<<"u9e21", "u80f8", "u8089">>), Str(<<"2", "0", "0">>)>>,
                          <<Str(<<"2", "0", "2", "4", "-", "0", "1", "-", "0", "2">>), Str(<<>>), Str(<<"a", "b", "c">>)>> >>))

\* C1: for the sheet with header [日期, 食物, 热量] and rows
\* [2024-01-01, 鸡胸肉, 200], [2024-01-02, "", abc], the validation result has
\* exactly one error, on row 2, for field calories with the value "abc", and
\* the upload is not accepted with row 2's calories coerced away.
C1_OneErrorOnRowTwo ==
    (upload = C1Upload /\ validation_result # None) =>
        /\ Len(validation_result.errors) = 1
        /\ validation_result.errors[1].row_index = PyInt(2)
        /\ validation_result.errors[1].field = "calories"
        /\ validation_result.errors[1].value = Str(<<"a", "b", "c">>)
        /\ ~is_valid(validation_result)

C2Upload ==
    PdfUpload(PdfDocument(<<[tables |-> <<>>,
                             text |-> <<<<"2", "0", "2", "4", "-", "0", "3", "-", "0", "1">>, <<"u65e9", "u9910", ":", " ", "u71d5", "u9ea6", " ", "3", "0", "0", "u5361">>,
                                        <<"u8dd1", "u6b65", " ", "3", "0", "u5206", "u949f">>>>]>>))

\* C2: for the page text "2024-03-01", "早餐: 燕麦 300卡", "跑步 30分钟" the
\* converted result is one meal entry (meal_time 早餐, food 燕麦, calories
\* 300.0) and one exercise entry (name 跑步, duration 30.0), both dated
\* 2024-03-01.
C2_MealAndExercise ==
    (upload = C2Upload /\ plan_items # None) =>
        /\ Len(plan_items.meals) = 1
        /\ plan_items.meals[1].date = Str(<<"2", "0", "2", "4", "-", "0", "3", "-", "0", "1">>)
        /\ plan_items.meals[1].meal_time = Str(<<"u65e9", "u9910">>)
        /\ plan_items.meals[1].food = Str(<<"u71d5", "u9ea6">>)
        /\ PyFloat(plan_items.meals[1].calories) = Float(300, 0)
        /\ Len(plan_items.exercises) = 1
        /\ plan_items.exercises[1].date = Str(<<"2", "0", "2", "4", "-", "0", "3", "-", "0", "1">>)
        /\ plan_items.exercises[1].name = Str(<<"u8dd1", "u6b65">>)
        /\ PyFloat(plan_items.exercises[1].duration) = Float(30, 0)

\* C3: once the handler has returned or raised, the temporary file holding
\* the upload is no longer on disk.
C3_TempFileDeleted == pc = "done" => ~tmp_on_disk

\* C4: validating an empty row list gives, for every kind, a result that is
\* not valid, with exactly one error, of type EmptyData and without a row
\* index, and no warnings.
C4_EmptyData ==
    (pc = "validated" /\ parsed_data = <<>>) =>
        /\ ~is_valid(validation_result)
        /\ Len(validation_result.errors) = 1
        /\ validation_result.errors[1].error_type = "empty_data"
        /\ validation_result.errors[1].row_index = None
        /\ validation_result.warnings = <<>>

C4_Witness ==
    /\ pc = "validated"
    /\ parsed_data = <<>>
    /\ dtype = "exercise"
    /\ Len(validation_result.errors) = 1

\* a row with date and meal_time present that lacks food and calories
LacksFoodAndCalories(row) ==
    /\ Truthy(Get(row, "date", None))
    /\ Truthy(Get(row, "meal_time", None))
    /\ ~Truthy(Get(row, "food", None))
    /\ ~Truthy(Get(row, "calories", None))

\* such a row whose date passes the date check, whose meal_time is a text of
\* at most 500 characters, whose calories is not the empty string, and which
\* has no other field
WellFormedLackingRow(row) ==
    /\ LacksFoodAndCalories(row)
    /\ DOMAIN row \subseteq {"date", "meal_time", "food", "calories"}
    /\ _is_valid_date(row["date"])
    /\ _is_valid_text(row["meal_time"], 500)
    /\ Get(row, "calories", None) # Str(<<>>)

\* C5 as stated: for kind meal, a single row with date and meal_time present
\* that lacks food and calories gives zero errors and exactly one warning,
\* which names food and calories.
C5_OneWarning ==
    (pc = "validated" /\ dtype = "meal" /\ Len(parsed_data) = 1
        /\ LacksFoodAndCalories(parsed_data[1])) =>
        /\ validation_result.errors = <<>>
        /\ Len(validation_result.warnings) = 1
        /\ validation_result.warnings[1].fields = <<"food", "calories">>

\* C5: for kind meal, a single row with a valid date and a meal_time text
\* that lacks food and calories gives zero errors and exactly two warnings:
\* the warning for row 1 naming food and calories, then the summary of one
\* validated row.
C5_TwoWarnings ==
    (pc = "validated" /\ dtype = "meal" /\ Len(parsed_data) = 1
        /\ WellFormedLackingRow(parsed_data[1])) =>
        /\ validation_result.errors = <<>>
        /\ validation_result.warnings =
              << [text |-> "row lacks recommended fields", row_index |-> 1,
                  fields |-> <<"food", "calories">>],
                 [text |-> "validated rows", count |-> 1] >>

C5_Witness ==
    /\ pc = "validated"
    /\ dtype = "meal"
    /\ parsed_data = <<[date |-> ValidDate, meal_time |-> Str(<<"u65e9", "u9910">>)]>>
    /\ Len(validation_result.warnings) = 2

\* C6: after any sequence of add_error and add_warning calls the result is
\* valid exactly when no error was added, the error list holding one entry
\* per add_error call; an add_warning call changes neither the error list
\* nor is_valid().
C6_ValidIffNoErrors ==
    /\ [](/\ is_valid(validation_result) <=> calls.errors = 0
          /\ Len(validation_result.errors) = calls.errors)
    /\ [][calls'.warnings # calls.warnings =>
             /\ validation_result'.errors = validation_result.errors
             /\ is_valid(validation_result') = is_valid(validation_result)]_vars

C6_Witness ==
    /\ pc = "result"
    /\ calls.warnings = 2
    /\ calls.errors = 1
    /\ ~is_valid(validation_result)
    /\ Len(validation_result.warnings) = 2

NumericBounds == [calories |-> 10000, duration |-> 1440]

\* the value is numeric and lies in 0..max
WithinBound(v, max) ==
    CASE v.t = "int" -> 0 <= v.n /\ v.n <= max
      [] v.t = "float" -> 0 <= v.m /\ v.m <= max * Pow10(v.e)
      [] v.t = "str" ->
            LET num == FloatOfStr(v.s)
            IN  ~IsError(num) /\ 0 <= num.m /\ num.m <= max * Pow10(num.e)
      [] OTHER -> FALSE

\* C7: a row whose calories (bound 10000) or duration (bound 1440) is present
\* gets exactly one InvalidValue error naming the field, its message stating
\* the range 0..bound, when the value is not numeric, below 0 or above the
\* bound, and no InvalidValue error for the field when the value is numeric
\* and within the inclusive bound.
C7_NumericBounds ==
    pc = "validated" =>
        \A i \in 1..Len(parsed_data) : \A f \in DOMAIN NumericBounds :
            (f \in DOMAIN parsed_data[i] /\ parsed_data[i][f] # None) =>
                LET errs == ErrorsOn(validation_result, i, "invalid_value", f)
                IN  IF WithinBound(parsed_data[i][f], NumericBounds[f])
                    THEN errs = <<>>
                    ELSE /\ Len(errs) = 1
                         /\ errs[1].message.range = <<0, NumericBounds[f]>>
                         /\ errs[1].value = parsed_data[i][f]

C7_Witness ==
    /\ pc = "validated"
    /\ parsed_data = <<[date |-> ValidDate, calories |-> PyInt(15000)],
                       [date |-> ValidDate, calories |-> PyInt(10000)]>>
    /\ Len(validation_result.errors) = 1
    /\ validation_result.errors[1].field = "calories"
    /\ validation_result.errors[1].row_index = PyInt(1)

\* the row's date is missing, None or empty
DateAbsent(row) ==
    \/ "date" \notin DOMAIN row
    \/ row["date"] = None
    \/ row["date"] = Str(<<>>)

\* C8: for kinds meal and exercise every row whose date is missing, None or
\* empty gets exactly one MissingRequiredField error, with field date and the
\* row's 1-based index; for kind general the result holds no
\* MissingRequiredField error.
C8_DateRequired ==
    (pc = "validated" /\ parsed_data # <<>>) =>
        IF dtype \in {"meal", "exercise"}
        THEN \A i \in 1..Len(parsed_data) :
                DateAbsent(parsed_data[i]) =>
                    LET errs == SelectSeq(RowErrors(validation_result, i),
                                    LAMBDA e : e.error_type = "missing_required_field")
                    IN  Len(errs) = 1 /\ errs[1].field = "date"
        ELSE \A j \in 1..Len(validation_result.errors) :
                validation_result.errors[j].error_type # "missing_required_field"

C8_Witness ==
    /\ pc = "validated"
    /\ dtype = "exercise"
    /\ parsed_data = <<[date |-> ValidDate], [date |-> None]>>
    /\ Len(validation_result.errors) = 1
    /\ validation_result.errors[1].error_type = "missing_required_field"
    /\ validation_result.errors[1].row_index = PyInt(2)

\* the result holds an InvalidFormat error for the date
FlagsInvalidFormat(result) ==
    \E j \in 1..Len(result.errors) :
        /\ result.errors[j].error_type = "invalid_format"
        /\ result.errors[j].field = "date"

\* C9: a present date string gets an InvalidFormat error from the validator
\* exactly when the normalizer's date parser rejects it.
C9_SameDateLanguage ==
    pc = "date_checked" =>
        (FlagsInvalidFormat(validation_result) <=> normalized = None)

\* C10: for a non-empty batch the result holds, for every row, the errors
\* that row produces when validated on its own; the errors are in
\* non-decreasing row_index order and every error's row_index lies between 1
\* and the batch length.
C10_AllRowsChecked ==
    (pc = "validated" /\ parsed_data # <<>>) =>
        LET errors == validation_result.errors
        IN  /\ \A i \in 1..Len(parsed_data) :
                  RowErrors(validation_result, i) =
                      _validate_row(parsed_data[i], i, dtype, NewResult).errors
            /\ \A j \in 1..Len(errors) :
                  /\ errors[j].row_index.t = "int"
                  /\ errors[j].row_index.n \in 1..Len(parsed_data)
            /\ \A j \in 1..(Len(errors) - 1) :
                  errors[j].row_index.n <= errors[j + 1].row_index.n

C10_Witness ==
    /\ pc = "validated"
    /\ dtype = "meal"
    /\ Len(parsed_data) = 2
    /\ RowErrors(validation_result, 1) # <<>>
    /\ RowErrors(validation_result, 2) # <<>>
    /\ Len(RowErrors(validation_result, 1)) + Len(RowErrors(validation_result, 2)) >= 3

\* the upload's file as the sniffer sees it is accepted
SnifferAccepts == validate_file(TempFile(upload), upload.has_magic).is_valid

\* C11: a file of fewer than 100 bytes or of more than 10 MiB is rejected by
\* the sniffer, and the handler enters the parse stage only directly after a
\* sniff stage in which the sniffer accepted the file.
C11_SniffedBeforeParsed ==
    /\ (upload.size < 100 \/ upload.size > 10 * 1024 * 1024) =>
            /\ ~SnifferAccepts
            /\ \A i \in 1..Len(stages) : stages[i] # "parse"
    /\ \A i \in 1..Len(stages) :
            stages[i] = "parse" =>
                /\ i > 1
                /\ stages[i - 1] = "sniff"
                /\ file_info # None
                /\ SnifferAccepts

C11_Witness ==
    /\ pc = "done"
    /\ upload.filename = <<"p", "l", "a", "n", ".", "x", "l", "s", "x">>
    /\ upload.size = 9
    /\ stages = <<"sniff">>
    /\ response = HTTPException(400, "FILE_VALIDATION_ERROR")

\* p is a prefix of the header bytes h
HasPrefix(h, p) == Len(h) >= Len(p) /\ SubSeq(h, 1, Len(p)) = p

\* the file type an extension implies, "" for none
ImpliedType(ext) ==
    IF Lower(ext) \in {<<".", "x", "l", "s", "x">>, <<".", "x", "l", "s">>} THEN "excel"
    ELSE IF Lower(ext) = <<".", "p", "d", "f">> THEN "pdf"
    ELSE ""

\* the header starts with a magic number of the type: PK\x03\x04 or the OLE
\* signature for excel, %PDF for pdf
CarriesMagic(h, type) ==
    \/ /\ type = "excel"
       /\ \/ HasPrefix(h, <<80, 75, 3, 4>>)
          \/ HasPrefix(h, <<208, 207, 17, 224, 161, 177, 26, 225>>)
    \/ /\ type = "pdf"
       /\ HasPrefix(h, <<37, 80, 68, 70>>)

\* C12: the sniffer rejects every file whose first 8 bytes do not start with
\* a magic number of the type its extension implies, and a file it reports
\* valid carries a magic number of the reported type.
C12_MagicRequired ==
    pc = "sniffed" =>
        /\ ~CarriesMagic(file_path.header, ImpliedType(file_path.ext)) =>
                ~sniff_result.is_valid
        /\ sniff_result.is_valid =>
                /\ sniff_result.file_type = ImpliedType(file_path.ext)
                /\ CarriesMagic(file_path.header, sniff_result.file_type)

C12_Witness ==
    /\ pc = "sniffed"
    /\ file_path.ext = <<".", "x", "l", "s", "x">>
    /\ file_path.size = 5000
    /\ file_path.header = <<80, 75, 5, 6, 0, 0, 0, 0>>
    /\ file_path.mime = XlsxMime
    /\ file_path.readable /\ ~file_path.executable
    /\ ~sniff_result.is_valid
    /\ sniff_result.error = "content does not match extension"

\* C13: a file of accepted size and supported extension that carries its
\* type's magic number and passes the security check is reported valid,
\* whatever MIME type the system sniff reports for it.
C13_MimeNotFatal ==
    (/\ pc = "sniffed"
     /\ 100 <= file_path.size /\ file_path.size <= 10 * 1024 * 1024
     /\ CarriesMagic(file_path.header, ImpliedType(file_path.ext))
     /\ ~file_path.dangerous_path /\ file_path.readable /\ ~file_path.executable) =>
        sniff_result.is_valid

\* the cell is non-empty and its text contains a keyword of the dictionary
KeywordCell(cell) == Truthy(cell) /\ MatchingFields(cell) # {}

\* at least 40% of the row's non-empty cells contain a keyword
KeywordShare(row) ==
    LET non_empty == {c \in 1..Len(row) : Truthy(row[c])}
        keyword == {c \in 1..Len(row) : KeywordCell(row[c])}
    IN  non_empty # {} /\ 5 * Cardinality(keyword) >= 2 * Cardinality(non_empty)

\* the rows among sheet rows 1..5 that qualify as header
HeaderCandidates(ws) == {r \in 1..Len(ws) : r <= 5 /\ KeywordShare(ws[r])}

\* C14: when a header row is recognized, every column of it whose text
\* contains a dictionary keyword is the column of some field of the column
\* mapping.
C14_EveryKeywordColumnMapped ==
    (pc = "identified" /\ HeaderCandidates(self_worksheet) # {}) =>
        LET header == self_worksheet[self_column_mapping["header_row"]]
        IN  \A c \in 1..Len(header) :
                KeywordCell(header[c]) =>
                    \E f \in DOMAIN self_column_mapping \ {"header_row"} :
                        self_column_mapping[f] = c

PatternFinds(s, i) ==
    LET mt == Search(s, date_patterns[i])
        y == DigitsToNat(mt.g[IF i = 2 THEN 3 ELSE 1])
        m == DigitsToNat(mt.g[IF i = 2 THEN 1 ELSE 2])
        d == DigitsToNat(mt.g[IF i = 2 THEN 2 ELSE 3])
    IN  IF mt.ok /\ ValidYMD(y, m, d) THEN Str(Strftime(y, m, d)) ELSE None

\* C16: the date normalizer of either parser returns, for a non-empty
\* string, the ISO date of the first of the three patterns whose match is a
\* valid calendar date, and absent when there is none; "2024-12-02",
\* "12/02/2024" and "2024年12月2日" each give "2024-12-02".
C16_FirstValidPattern ==
    (pc = "normalized" /\ cell_field = "date" /\ raw.t = "str" /\ raw.s # <<>>) =>
        LET found == {i \in 1..3 : PatternFinds(raw.s, i) # None}
        IN  /\ IF found = {} THEN normalized = None
               ELSE normalized =
                       PatternFinds(raw.s, CHOOSE i \in found : \A j \in found : i <= j)
            /\ raw.s \in {<<"2", "0", "2", "4", "-", "1", "2", "-", "0", "2">>, <<"1", "2", "/", "0", "2", "/", "2", "0", "2", "4">>, <<"2", "0", "2", "4", "u5e74", "1", "2", "u6708", "2", "u65e5">>} =>
                   normalized = Str(<<"2", "0", "2", "4", "-", "1", "2", "-", "0", "2">>)

C16_Witness ==
    /\ pc = "normalized"
    /\ parser = "pdf"
    /\ cell_field = "date"
    /\ raw = Str(<<"2", "0", "2", "4", "-", "1", "3", "-", "1", "/", "0", "2", "/", "2", "0", "2", "4">>)
    /\ normalized = Str(<<"2", "0", "2", "4", "-", "0", "1", "-", "0", "2">>)

\* C17: normalizing a normalized cell value of the tabular extractor again
\* gives the same value.
C17_Idempotent ==
    (pc = "renormalized" /\ parser = "excel") => normalized = raw

\* C18: the number normalizer of either extractor gives, for a calories or
\* duration cell, absent or a number that is not negative.
C18_NonNegative ==
    (pc = "normalized" /\ cell_field \in {"calories", "duration"}) =>
        \/ normalized = None
        \/ normalized.t = "float" /\ normalized.m >= 0

\* the value is a number
IsNumber(v) == v.t \in {"int", "float"}

\* C19: every MealEntry the converter emits has a numeric calories and every
\* ExerciseEntry a numeric duration and calories_burned, for every row list
\* of the tabular extractor that it converts.
C19_StructurallyComplete ==
    (pc = "converted" /\ plan_items.exc = "") =>
        /\ \A i \in 1..Len(plan_items.meals) :
               IsNumber(plan_items.meals[i].calories)
        /\ \A i \in 1..Len(plan_items.exercises) :
               /\ IsNumber(plan_items.exercises[i].duration)
               /\ IsNumber(plan_items.exercises[i].calories_burned)

\* the field of the row is present: a non-empty text
Present(row, k) == k \in DOMAIN row /\ row[k] # None /\ row[k] # Str(<<>>)

\* the (date, food) of the MealEntry a row yields, if any
MealsOfRow(row) ==
    IF Present(row, "type") /\ Present(row, "name")
    THEN IF row["type"].s \in {<<"u9910", "u98df">>, <<"m", "e", "a", "l">>, <<"u98df", "u7269">>}
         THEN << <<row["date"], row["name"]>> >> ELSE <<>>
    ELSE IF Present(row, "food") THEN << <<row["date"], row["food"]>> >> ELSE <<>>

\* the (date, name) of the ExerciseEntry a row yields, if any
ExercisesOfRow(row) ==
    IF Present(row, "type") /\ Present(row, "name")
    THEN IF row["type"].s \in {<<"u8fd0", "u52a8">>, <<"e", "x", "e", "r", "c", "i", "s", "e">>, <<"u953b", "u70bc">>}
         THEN << <<row["date"], row["name"]>> >> ELSE <<>>
    ELSE IF Present(row, "exercise") THEN << <<row["date"], row["exercise"]>> >> ELSE <<>>

RECURSIVE EntriesOfRows(_, _)
EntriesOfRows(rows, exercise) ==
    IF rows = <<>> THEN <<>>
    ELSE (IF exercise THEN ExercisesOfRow(Head(rows)) ELSE MealsOfRow(Head(rows)))
             \o EntriesOfRows(Tail(rows), exercise)

\* the converter's result holds exactly the entries the rows yield, in row
\* order
YieldsLayoutEntries ==
    /\ plan_items.exc = ""
    /\ [i \in 1..Len(plan_items.meals) |->
            <<plan_items.meals[i].date, plan_items.meals[i].food>>]
          = EntriesOfRows(parsed_data, FALSE)
    /\ [i \in 1..Len(plan_items.exercises) |->
            <<plan_items.exercises[i].date, plan_items.exercises[i].name>>]
          = EntriesOfRows(parsed_data, TRUE)

\* C20: a row with type and name present yields one MealEntry for a meal
\* type, one ExerciseEntry for an exercise type and nothing for another
\* type, whatever its food and exercise columns hold; any other row yields a
\* MealEntry iff food is present and an ExerciseEntry iff exercise is
\* present; entries follow row order.
C20_LayoutPerRow == pc = "converted" => YieldsLayoutEntries

----------------------------------------------------------------------------
(* The pipeline's stages and persistence *)

\* what _parse_file returns or raises for the upload once it was sniffed
ParserOutcome ==
    _parse_file(upload.content, file_info.file_type, upload.has_pdfplumber)

\* the stage s has been entered
Entered(s) == \E i \in 1..Len(stages) : stages[i] = s

\* the request ended at the stages st with the one error code, nothing saved
EndedWith(st, code) ==
    /\ stages = st
    /\ response = HTTPException(400, code)
    /\ pc \in {"finally", "done"}
    /\ db = <<>>

\* C21: a Plan row is persisted only after the sniffer accepted the file,
\* the parser returned without an error and the validator found the rows
\* valid, in that order; a failure of the sniffer, the parser or the
\* validator ends the request with FILE_VALIDATION_ERROR, FILE_PARSE_ERROR
\* or DATA_VALIDATION_ERROR respectively and no later stage is entered.
C21_StagesInOrder ==
    /\ db # <<>> =>
          /\ Len(stages) >= 3
          /\ SubSeq(stages, 1, 3) = <<"sniff", "parse", "validate">>
          /\ SnifferAccepts
          /\ ParserOutcome.exc = ""
          /\ is_valid(validation_result)
    /\ (Entered("sniff") /\ ~SnifferAccepts) =>
          EndedWith(<<"sniff">>, "FILE_VALIDATION_ERROR")
    /\ (Entered("parse") /\ ParserOutcome.exc # "") =>
          EndedWith(<<"sniff", "parse">>, "FILE_PARSE_ERROR")
    /\ (Entered("validate") /\ ~is_valid(validation_result)) =>
          EndedWith(<<"sniff", "parse", "validate">>, "DATA_VALIDATION_ERROR")

C21_Witness ==
    /\ pc = "done"
    /\ EndedWith(<<"sniff", "parse", "validate">>, "DATA_VALIDATION_ERROR")
    /\ upload.filename = <<"p", "l", "a", "n", ".", "x", "l", "s", "x">>
    /\ SnifferAccepts
    /\ ParserOutcome.exc = ""
    /\ ~is_valid(validation_result)

----------------------------------------------------------------------------
(* SpecParseFile: one ExcelParser instance is given one or two files, one   *)
(* parse_file call after the other.  A file is what load_workbook makes of *)
(* it (a workbook with its active sheet, a workbook without one, or an     *)
(* error) and whether reading its rows raises.                             *)

ParsedFile(kind, sheet, fault) == [kind |-> kind, sheet |-> sheet, fault |-> fault]

\* a worksheet without a header row
PlainSheet ==
    << <<Str(<<"2", "0", "2", "4", "-", "0", "1", "-", "0", "1">>), Str(<<"u65e9", "u9910">>), Str(<<"r", "i", "c", "e">>), PyInt(200)>>,
       <<Str(<<"2", "0", "2", "4", "-", "0", "1", "-", "0", "2">>), Str(<<"u5348", "u9910">>), Str(<<"s", "o", "u", "p">>), PyInt(300)>>,
       <<Str(<<"2", "0", "2", "4", "-", "0", "1", "-", "0", "3">>), Str(<<"u665a", "u9910">>), Str(<<"f", "i", "s", "h">>), PyInt(400)>> >>

TitledSheet ==
    << <<Str(<<"p", "l", "a", "n">>), None, None>>,
       <<Str(<<"u98df", "u7269">>), Str(<<"u70ed", "u91cf">>), Str(<<"u65e5", "u671f">>)>>,
       <<Str(<<"r", "i", "c", "e">>), Str(<<"2", "0", "0">>), Str(<<"2", "0", "2", "4", "/", "1", "/", "5">>)>> >>

ParsedFiles ==
    { ParsedFile("workbook", <<MealHeader, <<Str(<<"2", "0", "2", "4", "-", "0", "1", "-", "0", "1">>), Str(<<"u9e21", "u80f8", "u8089">>), Str(<<"2", "0", "0">>)>> >>, ""),
      ParsedFile("workbook", PlainSheet, ""),
      ParsedFile("workbook", SubSeq(PlainSheet, 1, 1), ""),
      ParsedFile("workbook", TitledSheet, ""),
      ParsedFile("no_sheet", <<>>, ""),
      ParsedFile("workbook", PlainSheet, "extract"),
      ParsedFile("corrupt", <<>>, "") }

\* the handle of an opened workbook
WorkbookHandle(id) == [t |-> "Workbook", id |-> id]

InitParseFile ==
    /\ pc = "pf_new"
    /\ upload = None
    /\ parsed_data = <<>>
    /\ dtype = "general"
    /\ Idle
    /\ self_worksheet = None
    /\ self_column_mapping = EmptyDict
    /\ file_path = None
    /\ sniff_result = None
    /\ cell_field = ""
    /\ parser = "excel"
    /\ self_workbook = None
    /\ open_workbooks = {}
    /\ files \in SeqsUpTo(ParsedFiles, MaxFiles) \ {<<>>}
    /\ outcome = <<>>
    /\ IdleText

\* lines 62-67: load_workbook and workbook.active
ParseFile_load ==
    /\ pc \in {"pf_new", "pf_returned"}
    /\ files # <<>>
    /\ IF Head(files).kind = "corrupt"
       THEN /\ pc' = "pf_except"
            /\ UNCHANGED <<self_workbook, open_workbooks, self_worksheet>>
       ELSE /\ self_workbook' = WorkbookHandle(Len(files))
            /\ open_workbooks' = open_workbooks \cup {Len(files)}
            /\ self_worksheet' = IF Head(files).kind = "no_sheet" THEN None
                                 ELSE Head(files).sheet
            /\ pc' = "pf_identify"
    /\ UNCHANGED <<upload, temp_file_path, tmp_on_disk, file_info, parsed_data, dtype,
                   validation_result, plan_items, db, response, stages, text, raw,
                   normalized, calls, self_column_mapping, file_path, sniff_result,
                   cell_field, parser, files, outcome, textVars>>

\* lines 70, 85-108: _identify_columns; a workbook without an active sheet
\* raises at worksheet.max_row, after the mapping was emptied
ParseFile_identify ==
    /\ pc = "pf_identify"
    /\ IF Head(files).kind = "no_sheet"
       THEN /\ self_column_mapping' = ColumnMappingReset(self_column_mapping)
            /\ pc' = "pf_except"
       ELSE /\ self_column_mapping' =
                  ExcelParser_scan_rows(ColumnMappingReset(self_column_mapping),
                                        self_worksheet)
            /\ pc' = "pf_extract"
    /\ UNCHANGED <<upload, temp_file_path, tmp_on_disk, file_info, parsed_data, dtype,
                   validation_result, plan_items, db, response, stages, text, raw,
                   normalized, calls, self_worksheet, file_path, sniff_result,
                   cell_field, parser, self_workbook, open_workbooks, files, outcome,
                   textVars>>

\* lines 73, 176-194: _extract_data
ParseFile_extract ==
    /\ pc = "pf_extract"
    /\ IF Head(files).fault = "extract"
       THEN pc' = "pf_except" /\ UNCHANGED parsed_data
       ELSE /\ parsed_data' = ExcelParser_extract_data(self_worksheet, self_column_mapping)
            /\ pc' = "pf_close"
    /\ UNCHANGED <<upload, temp_file_path, tmp_on_disk, file_info, dtype,
                   validation_result, plan_items, db, response, stages, text, raw,
                   normalized, calls, self_worksheet, self_column_mapping, file_path,
                   sniff_result, cell_field, parser, self_workbook, open_workbooks,
                   files, outcome, textVars>>

\* lines 75-78: workbook.close() and return data
ParseFile_return ==
    /\ pc = "pf_close"
    /\ open_workbooks' = open_workbooks \ {self_workbook.id}
    /\ outcome' = Append(outcome, [file |-> Head(files), exc |-> "", data |-> parsed_data])
    /\ files' = Tail(files)
    /\ pc' = "pf_returned"
    /\ UNCHANGED <<upload, temp_file_path, tmp_on_disk, file_info, parsed_data, dtype,
                   validation_result, plan_items, db, response, stages, text, raw,
                   normalized, calls, self_worksheet, self_column_mapping, file_path,
                   sniff_result, cell_field, parser, self_workbook, textVars>>

\* variant: the except clause does not close the workbook
ClosedOnError_not(open, workbook) == open

\* lines 81-82: if self.workbook: self.workbook.close()
ClosedOnError(open, workbook) ==
    IF Truthy(workbook) THEN open \ {workbook.id} ELSE open

\* lines 80-83: the except clause
ParseFile_except ==
    /\ pc = "pf_except"
    /\ open_workbooks' = ClosedOnError(open_workbooks, self_workbook)
    /\ outcome' = Append(outcome, [file |-> Head(files), exc |-> "ExcelParseError",
                                    data |-> <<>>])
    /\ files' = Tail(files)
    /\ pc' = "pf_returned"
    /\ UNCHANGED <<upload, temp_file_path, tmp_on_disk, file_info, parsed_data, dtype,
                   validation_result, plan_items, db, response, stages, text, raw,
                   normalized, calls, self_worksheet, self_column_mapping, file_path,
                   sniff_result, cell_field, parser, self_workbook, textVars>>

NextParseFile ==
    \/ ParseFile_load
    \/ ParseFile_identify
    \/ ParseFile_extract
    \/ ParseFile_return
    \/ ParseFile_except

SpecParseFile == InitParseFile /\ [][NextParseFile]_vars

\* what parse_file of a new ExcelParser instance gives for the file f
FreshInstanceOutcome(f) ==
    IF f.kind # "workbook" \/ f.fault # ""
    THEN [file |-> f, exc |-> "ExcelParseError", data |-> <<>>]
    ELSE [file |-> f, exc |-> "",
          data |-> ExcelParser_extract_data(f.sheet, ExcelParser_identify_columns(f.sheet))]

\* C22: whatever file an ExcelParser instance parsed before, completely or
\* up to a failure, parse_file gives for a file exactly what a new instance
\* gives for it, and the rows are extracted under the column mapping that
\* _identify_columns finds for that file's sheet alone.
C22_NoLeakAcrossFiles ==
    /\ \A i \in 1..Len(outcome) : outcome[i] = FreshInstanceOutcome(outcome[i].file)
    /\ pc \in {"pf_extract", "pf_close"} =>
          self_column_mapping = ExcelParser_identify_columns(self_worksheet)

\* a sheet with a header row, then a sheet without one, on one instance
C22_Witness ==
    /\ pc = "pf_returned"
    /\ Len(outcome) = 2
    /\ outcome[1].file.kind = "workbook"
    /\ outcome[1].file.sheet[1] = MealHeader
    /\ outcome[2].file = ParsedFile("workbook", PlainSheet, "")
    /\ outcome[2].exc = ""
    /\ Len(outcome[2].data) = 2
    /\ self_column_mapping = ExcelParser_use_default_mapping

\* the file makes parse_file fail: at load_workbook, in _identify_columns or
\* in _extract_data
Fails(f) == f.kind # "workbook" \/ f.fault # ""

\* C23: whenever parse_file has returned or raised, no workbook it opened is
\* still open, whether the call succeeded or failed in header
\* identification or row extraction, and a call that fails raises
\* ExcelParseError.
C23_WorkbookClosed ==
    /\ pc \in {"pf_new", "pf_returned"} => open_workbooks = {}
    /\ \A i \in 1..Len(outcome) :
          outcome[i].exc = IF Fails(outcome[i].file) THEN "ExcelParseError" ELSE ""

\* a workbook was opened and row extraction raised
C23_Witness ==
    /\ pc = "pf_returned"
    /\ Len(outcome) = 1
    /\ outcome[1].file = ParsedFile("workbook", PlainSheet, "extract")
    /\ outcome[1].exc = "ExcelParseError"
    /\ self_workbook = WorkbookHandle(1)
    /\ open_workbooks = {}

\* no row among the first five of the sheet is recognized as a header
NoHeaderFound(ws) ==
    \A r \in 1..(IF Len(ws) < 5 THEN Len(ws) ELSE 5) : ~ExcelParser_is_header_row(ws[r])

\* the fields of one sheet row read by position: date from column 1,
\* meal_time from 2, food 3, calories 4, exercise 5, duration 6, notes 7
PositionalRow(row) ==
    [date |-> ExcelParser_parse_date(Cell(<<row>>, 1, 1)),
     meal_time |-> ExcelParser_parse_text(Cell(<<row>>, 1, 2)),
     food |-> ExcelParser_parse_text(Cell(<<row>>, 1, 3)),
     calories |-> ExcelParser_parse_number(Cell(<<row>>, 1, 4)),
     exercise |-> ExcelParser_parse_text(Cell(<<row>>, 1, 5)),
     duration |-> ExcelParser_parse_number(Cell(<<row>>, 1, 6)),
     notes |-> ExcelParser_parse_text(Cell(<<row>>, 1, 7))]

\* the rows read by position from the sheet rows from, from + 1, ...
PositionalRows(ws, from) ==
    SelectSeq([i \in 1..(Len(ws) - from + 1) |-> PositionalRow(ws[from + i - 1])],
              AnyValue)

\* the rows emitted for the sheet ws come from its rows 2 and later only
FromRowTwo(ws, data) ==
    /\ data = PositionalRows(ws, 2)
    /\ Len(data) <= Len(ws) - 1
    /\ (\A j \in 2..Len(ws) : PositionalRow(ws[j]) # PositionalRow(ws[1])) =>
          \A k \in 1..Len(data) : data[k] # PositionalRow(ws[1])

\* C28: when no header row is recognized the rows are read by position
\* with sheet row 1 taken as the header: the emitted rows are those of sheet
\* rows 2 and later, and what sheet row 1 holds is not emitted.
C28_RowOneSkipped ==
    \A i \in 1..Len(outcome) :
        (outcome[i].exc = "" /\ NoHeaderFound(outcome[i].file.sheet)) =>
            FromRowTwo(outcome[i].file.sheet, outcome[i].data)

\* a sheet of three data rows and no header: the first row is not emitted
C28_Witness ==
    /\ Len(outcome) = 1
    /\ outcome[1].file = ParsedFile("workbook", PlainSheet, "")
    /\ outcome[1].exc = ""
    /\ Len(outcome[1].data) = 2
    /\ outcome[1].data[1].date = Str(<<"2", "0", "2", "4", "-", "0", "1", "-", "0", "2">>)
    /\ outcome[1].data[2].date = Str(<<"2", "0", "2", "4", "-", "0", "1", "-", "0", "3">>)

----------------------------------------------------------------------------
(* The PDF parser's pages *)

\* the rows of the pages when a page's text is parsed only if the page has
\* no table
RECURSIVE TablesElseText(_)
TablesElseText(pages) ==
    IF pages = <<>> THEN <<>>
    ELSE (IF Head(pages).tables # <<>> THEN ProcessTables(Head(pages).tables)
          ELSE IF Head(pages).text # <<>> THEN PDFParser_parse_text(Head(pages).text)
          ELSE <<>>)
         \o TablesElseText(Tail(pages))

\* C24: the rows the PDF parser returns are, page by page, the rows of the
\* page's tables if the page has a table, and the rows of line-based text
\* extraction only if it has none.
C24_TextOnlyWithoutTables ==
    (pc = "validate" /\ upload.content.kind = "pdf") =>
        parsed_data = TablesElseText(upload.content.pages)

----------------------------------------------------------------------------
(* SpecText: one call of PDFParser._parse_text on the text of a page, one   *)
(* line of the loop at a time.                                             *)

TextLinePool ==
    { <<"2", "0", "2", "4", "-", "0", "3", "-", "0", "1">>, <<" ", "2", "0", "2", "4", "/", "3", "/", "2", " ">>, <<"u65e9", "u9910", ":", " ", "u71d5", "u9ea6", " ", "3", "0", "0", "u5361">>, <<"u8dd1", "u6b65", " ", "3", "0", "u5206", "u949f">>, <<"3", "0", "0", "u5361">>,
      <<"2", "0", "0", " ", "k", "c", "a", "l">>, <<"u5348", "u9910", " ", "u7c73", "u996d">>, <<>> }

PageTexts == SeqsUpTo(TextLinePool, MaxTextLines) \ {<<>>}

InitText ==
    /\ pc = "pt_loop"
    /\ upload = None
    /\ parsed_data = <<>>
    /\ dtype = "general"
    /\ temp_file_path = None
    /\ tmp_on_disk = FALSE
    /\ file_info = None
    /\ validation_result = None
    /\ plan_items = None
    /\ db = <<>>
    /\ response = None
    /\ stages = <<>>
    /\ text \in PageTexts
    /\ raw = None
    /\ normalized = None
    /\ calls = [errors |-> 0, warnings |-> 0]
    /\ self_worksheet = None
    /\ self_column_mapping = None
    /\ file_path = None
    /\ sniff_result = None
    /\ cell_field = ""
    /\ parser = "pdf"
    /\ IdleInstance
    /\ locals = [data |-> <<>>, current_item |-> EmptyDict, current_date |-> None]
    /\ line_no = 0

\* lines 211-250: the loop body for the next line
ParseText_line ==
    /\ pc = "pt_loop"
    /\ line_no < Len(text)
    /\ locals' = ParseLine(locals, Strip(text[line_no + 1]))
    /\ line_no' = line_no + 1
    /\ UNCHANGED <<pc, upload, temp_file_path, tmp_on_disk, file_info, parsed_data,
                   dtype, validation_result, plan_items, db, response, stages, text,
                   raw, normalized, calls, self_worksheet, self_column_mapping,
                   file_path, sniff_result, cell_field, parser, instanceVars>>

\* lines 252-256: the last item is appended and data returned
ParseText_return ==
    /\ pc = "pt_loop"
    /\ line_no = Len(text)
    /\ locals' = [locals EXCEPT !.data = ItemAppended(locals.data, locals.current_item)]
    /\ pc' = "pt_returned"
    /\ UNCHANGED <<upload, temp_file_path, tmp_on_disk, file_info, parsed_data,
                   dtype, validation_result, plan_items, db, response, stages, text,
                   raw, normalized, calls, self_worksheet, self_column_mapping,
                   file_path, sniff_result, cell_field, parser, instanceVars, line_no>>

NextText == ParseText_line \/ ParseText_return

SpecText == InitText /\ [][NextText]_vars

\* the keys of a record other than its date
NonDateFields(item) == (DOMAIN item) \ {"date"}

\* C25: line-based extraction emits only records that hold at least one
\* field besides the date; a record holding only a date when the next date
\* line arrives is dropped.
C25_DateOnlyDropped ==
    \A i \in 1..Len(locals.data) : NonDateFields(locals.data[i]) # {}

\* every field of the record old is in the record new with the same value
Extends(old, new) ==
    \A k \in DOMAIN old : k \in DOMAIN new /\ new[k] = old[k]

\* the step keeps every field the accumulating record holds, or appends the
\* record to the output as it is; at the end of the page a record that was
\* started is appended
KeepsOrFlushes ==
    /\ \/ /\ Extends(locals.current_item, locals'.current_item)
          /\ locals'.data = locals.data
       \/ locals'.data = Append(locals.data, locals.current_item)
    /\ (pc' = "pt_returned" /\ DOMAIN locals.current_item # {}) =>
          locals'.data = Append(locals.data, locals.current_item)

DateOfLine(line) ==
    IF Strip(line) = <<>> THEN None ELSE PDFParser_extract_date(Strip(line))

\* the dates of the date lines among the first n lines, in order
RECURSIVE DateLineDates(_, _)
DateLineDates(lines, n) ==
    IF n = 0 THEN <<>>
    ELSE IF Truthy(DateOfLine(lines[n]))
         THEN Append(DateLineDates(lines, n - 1), DateOfLine(lines[n]))
         ELSE DateLineDates(lines, n - 1)

\* a sequence without its immediate repetitions
RECURSIVE Dedupe(_)
Dedupe(s) ==
    IF Len(s) <= 1 THEN s
    ELSE IF s[Len(s)] = s[Len(s) - 1] THEN Dedupe(SubSeq(s, 1, Len(s) - 1))
    ELSE Append(Dedupe(SubSeq(s, 1, Len(s) - 1)), s[Len(s)])

\* the records emitted so far and the one still accumulating
RecordsSoFar ==
    IF pc = "pt_loop" /\ DOMAIN locals.current_item # {}
    THEN Append(locals.data, locals.current_item)
    ELSE locals.data

\* the page's lines from its first date line on
RECURSIVE FromFirstDate(_)
FromFirstDate(lines) ==
    IF lines = <<>> \/ Truthy(DateOfLine(Head(lines))) THEN lines
    ELSE FromFirstDate(Tail(lines))

\* the accumulating record is anchored to the most recent date line
Anchored(dates) ==
    IF dates = <<>>
    THEN locals.current_item = EmptyDict /\ locals.data = <<>>
    ELSE /\ "date" \in DOMAIN locals.current_item
         /\ locals.current_item.date = dates[Len(dates)]
         /\ locals.current_date = dates[Len(dates)]

\* C27: every record of line-based extraction carries a date; the record
\* being accumulated carries the date of the most recent date line, and the
\* dates of the records follow the page's date lines in order; lines before
\* the first date line of the page contribute nothing to the output.
C27_DatedByLastDateLine ==
    /\ \A i \in 1..Len(locals.data) :
          "date" \in DOMAIN locals.data[i] /\ Truthy(locals.data[i].date)
    /\ Anchored(DateLineDates(text, line_no))
    /\ Dedupe([i \in 1..Len(RecordsSoFar) |-> RecordsSoFar[i].date])
          = Dedupe(DateLineDates(text, line_no))
    /\ pc = "pt_returned" => locals.data = PDFParser_parse_text(FromFirstDate(text))

\* a meal line before the first date line leaves no trace
C27_Witness ==
    /\ pc = "pt_returned"
    /\ text = <<<<"u65e9", "u9910", ":", " ", "u71d5", "u9ea6", " ", "3", "0", "0", "u5361">>, <<"2", "0", "2", "4", "-", "0", "3", "-", "0", "1">>, <<"u5348", "u9910", " ", "u7c73", "u996d">>>>
    /\ locals.data = <<[date |-> Str(<<"2", "0", "2", "4", "-", "0", "3", "-", "0", "1">>), meal_time |-> Str(<<"u5348", "u9910">>),
                        food |-> Str(<<"u7c73", "u996d">>)]>>

----------------------------------------------------------------------------
(* The converter and persistence *)

\* C29: convert_to_plan_items returns its {meals, exercises} result, without
\* raising, for every row list the tabular extractor can emit, rows whose
\* type or name cell is empty (None) included.
C29_ConverterReturns == pc = "converted" => plan_items.exc = ""

\* C30: an upload that ends with an error response leaves no Plan row of
\* that upload in the database, also when saving fails after some entries
\* were created.
C30_AllOrNothing == (pc = "done" /\ response.status # 200) => db = <<>>

====
